---- MODULE Spec2Model ----
(***************************************************************************)
(* Model of the SomniaPush / GitAgent deployment controller                *)
(* (backend/index.js, backend/database.js, contracts/AgentFactory.sol).    *)
(*                                                                         *)
(* The controller is a single-threaded Node.js process: every action of    *)
(* the model is one run-to-completion segment of a handler, i.e. the code  *)
(* between two suspension points (await / callback).  Synchronous calls    *)
(* (shelljs cd/exec, fs.existsSync) happen inside the segment.             *)
(*                                                                         *)
(* Strings that may contain "/" are sequences of their "/"-separated       *)
(* segments, so  a + "/" + b  is sequence concatenation and                *)
(* s.split('/').pop() is the last element.  keccak256 (ethers.id) is       *)
(* idealised as collision free: a digest is identified with its preimage.  *)
(***************************************************************************)
EXTENDS Naturals, Sequences, FiniteSets, TLC

\* ------------------------------------------------------------------ bounds
\* number of webhook deliveries in one behaviour, handled one after another
MaxReqs == 3
\* number of webhook deliveries in one behaviour, handled concurrently
MaxRace == 2
\* number of environment failures (RPC, git, supervisor, database) injected
MaxFaults == 1
\* number of commits on an upstream branch
MaxTip == 2
\* number of requests in one behaviour of pushes and overlapping passes
MaxConverge == 4
\* balance of a vault, in units sent to it
MaxBalance == 2

\* -------------------------------------------------------------- input sets
\* an absent JSON field (undefined)
Absent == <<"undefined">>
\* a JSON value that is truthy but has no split method (e.g. a number)
NotAString == <<"number">>
\* the n-th Agent contract created by the factory, for caller c (its owner)
AgentAddr(n, c) == <<c, n>>
\* ethers.ZeroAddress
ZeroAddress == <<"zero", 0>>
\* JavaScript null in a variable that holds an address
NullAddr == <<"null", 0>>
\* accounts that send transactions to the factory
Backend == "backend"
Stranger == "stranger"
\* no row / no directory
NoAgent == [id |-> 0, repo_url |-> <<>>, branch_name |-> "", branch_hash |-> <<>>,
            agent_address |-> NullAddr, status |-> ""]
NoTree == [repo |-> <<>>, branch |-> "", head |-> 0]
\* directory of the controller itself
BaseDir == <<"backend">>

\* handler runs that can be in flight together
Reqs == {1, 2}
Endpoints == {"push", "generic"}
EventTypes == {"push", "ping", "pull_request"}
RepoUrl == <<"R">>
CloneUrls == {Absent, RepoUrl}
Refs == {Absent, NotAString, <<"refs", "heads", "">>, <<"refs", "heads", "main">>}
BranchNames == {"main"}
\* refs of pushes: branch main, and a branch whose name has two segments
PushRefs == {<<"refs", "heads", "main">>, <<"refs", "heads", "feature", "main">>}

\* JavaScript truthiness of a payload field (undefined and "" are falsy)
Truthy(v) == v # Absent /\ v # <<"">>

\* variant: only a ref of three segments names a branch
BranchNameOfThird(ref) == IF Len(ref) = 3 THEN ref[3] ELSE ""

\* req.body.ref.split('/').pop()
BranchNameOf(ref) == ref[Len(ref)]

\* ethers.id(repo_url + "/" + branch_name)
BranchHash(url, bname) == url \o <<bname>>

Hashes == {BranchHash(RepoUrl, b) : b \in BranchNames}

\* branch_hash.replace('0x', '').substring(0, 16)
Pm2Name(h) == <<"pm2">> \o h

Pm2Names == {Pm2Name(h) : h \in Hashes}

\* !agentAddress || agentAddress === ethers.ZeroAddress
\* variant: every lookup result is taken for "not registered"
IsZeroAlways(a) == TRUE

IsZero(a) == a = NullAddr \/ a = ZeroAddress

\* ------------------------------------------------------ getEthersSetup
\* the module variables provider, wallet, agentFactoryContract (set or
\* undefined), and whether process.env holds BACKEND_PRIVATE_KEY and
\* AGENT_FACTORY_ADDRESS
EthersAtLoad(key, factory) ==
    [key |-> key, factory |-> factory, provider |-> FALSE, wallet |-> FALSE,
     agentFactoryContract |-> FALSE]

\* getEthersSetup(): st is the module state after the call; out tells
\* whether the call throws, returns the contract client, or returns an
\* object whose agentFactoryContract is undefined
GetEthersSetup(e) ==
    IF ~e.provider
    THEN IF ~e.key
         THEN [st |-> [e EXCEPT !.provider = TRUE], out |-> "throws"]
         ELSE IF ~e.factory
         THEN [st |-> [e EXCEPT !.provider = TRUE, !.wallet = TRUE], out |-> "throws"]
         ELSE [st |-> [e EXCEPT !.provider = TRUE, !.wallet = TRUE,
                                !.agentFactoryContract = TRUE],
               out |-> "client"]
    ELSE [st |-> e, out |-> IF e.agentFactoryContract THEN "client" ELSE "undefined"]

\* const { agentFactoryContract: factoryContract } = getEthersSetup() gives
\* a client on which agents() and registerAgent() can be called; if it
\* throws, or factoryContract is undefined (the call on it throws a
\* TypeError), the catch around the registry call takes over
HasClient(e) == GetEthersSetup(e).out = "client"

\* try { getEthersSetup() } catch (error) { console.warn(..) } at load
EthersAfterStartup(key, factory) == GetEthersSetup(EthersAtLoad(key, factory)).st

\* ------------------------------------------------------- contracts/Agent
\* accounts that call the vaults
Accounts == {Backend, Stranger}
\* the latest transaction a vault has received (none yet): the function,
\* msg.sender, _amount, the balance before it, and whether it reverted
NoTx == [fn |-> "", caller |-> "", amount |-> 0, before |-> 0, reverted |-> FALSE]
Tx(fn, caller, amount, before, reverted) ==
    [fn |-> fn, caller |-> caller, amount |-> amount, before |-> before,
     reverted |-> reverted]
\* the vault of a hash never registered
NoVault == [owner |-> "", balance |-> 0, last |-> NoTx]

\* new Agent(msg.sender): constructor(address _owner) { owner = _owner; }
NewVault(sender) == [owner |-> sender, balance |-> 0, last |-> NoTx]

\* variant: withdraw without the onlyOwner modifier
WithdrawRevertsForAnyone(v, caller, amount, sent) ==
    v.balance < amount \/ ~sent

\* withdraw(_to, _amount): onlyOwner, require(balance >= _amount), and
\* _to.transfer(_amount), which reverts when the recipient refuses (sent)
WithdrawReverts(v, caller, amount, sent) ==
    caller # v.owner \/ v.balance < amount \/ ~sent

\* a reverted transaction changes nothing
AfterWithdraw(v, caller, amount, sent) ==
    [v EXCEPT !.balance = IF WithdrawReverts(v, caller, amount, sent) THEN @
                          ELSE @ - amount,
              !.last = Tx("withdraw", caller, amount, v.balance,
                          WithdrawReverts(v, caller, amount, sent))]

\* execute(_target, _data): onlyOwner, (success, data) = _target.call(_data)
\* without value, require(success, "Call failed")
ExecuteReverts(v, caller, success) == caller # v.owner \/ ~success

AfterExecute(v, caller, success) ==
    [v EXCEPT !.last = Tx("execute", caller, 0, v.balance,
                          ExecuteReverts(v, caller, success))]

\* receive() external payable {}
AfterReceive(v, caller, amount) ==
    [v EXCEPT !.balance = @ + amount,
              !.last = Tx("receive", caller, amount, v.balance, FALSE)]

VARIABLES
    registry,   \* AgentFactory.agents : bytes32 -> address
    deployed,   \* number of Agent contracts created so far
    agents,     \* rows of table agents
    nextId,     \* AUTOINCREMENT sequence of table agents
    tree,       \* working tree under AGENTS_DIR/<branch_hash>, NoTree if absent
    cwd,        \* process working directory (shell.cd)
    procs,      \* supervisor: number of processes per name
    tip,        \* upstream: latest commit of each branch
    faults,     \* failures injected so far
    delivered,  \* webhook deliveries so far
    lastClean,  \* branch_hash of the latest undisturbed successful run, or <<>>
    hist,       \* <<registerAgent result, outcome>> of the runs that ended
                \* after calling registerAgent or in an RPC outage
    run,        \* one record per handler run
    rpcDown,    \* the RPC endpoint of the chain is unreachable
    secrets,    \* table secrets, in rowid order
    metrics,    \* table metrics, in rowid order
    oauth,      \* table github_oauth
    pm2conn,    \* the connection of the supervisor client (pm2) is open
    lateConnects, \* calls of pm2.connect whose callback is still to come
                \* after the 5 s timer of safePm2.connect has reported
    ethers,     \* provider, wallet, agentFactoryContract of the controller,
                \* and whether its environment holds the key and the address
    vaults      \* the Agent contract of each branch hash: owner, balance

\* the tables besides agents
store == <<secrets, metrics, oauth>>

vars == <<registry, deployed, agents, nextId, tree, cwd, procs, tip, faults,
          delivered, lastClean, hist, run, rpcDown, secrets, metrics, oauth, pm2conn,
          lateConnects, ethers, vaults>>

\* snapshot of the deployment state of branch hash h
StateOf(h) ==
    [rows |-> {a \in agents : a.branch_hash = h}, tree |-> tree[h],
     procs |-> procs[Pm2Name(h)], reg |-> registry[h]]
NoState == [rows |-> {}, tree |-> NoTree, procs |-> 0, reg |-> ZeroAddress]

\* ------------------------------------------------------------------ crypto
\* names and plaintexts of secrets; a value is a sequence, like every string
\* the model looks into
Keys == {"K"}
Plain == {<<"v1">>, <<"v2">>}
NoValue == <<>>
\* access tokens the git host hands out, and its users
Tokens == {<<"t1">>}
Users == {"u"}

\* SimpleCrypto under MASTER_SECRET_KEY: a ciphertext is not its plaintext,
\* and decrypt gives back what encrypt was given
Encrypt(v) == <<"enc">> \o v
Decrypt(c) == IF c # <<>> /\ c[1] = "enc" THEN Tail(c) ELSE NoValue

\* the environment of a worker, as far as secrets go
NoEnv == [x \in Keys |-> NoValue]

IdleRun ==
    [ep |-> "", evt |-> "", url |-> Absent, ref |-> Absent, pc |-> "idle",
     bname |-> "", bh |-> <<>>, agent |-> NoAgent, addr |-> NullAddr,
     site |-> "", ok |-> TRUE, resp |-> <<>>, sent |-> FALSE,
     timer |-> "none", regCalls |-> 0, regRes |-> "", faulted |-> FALSE,
     worked |-> FALSE, alone |-> TRUE, out |-> "", again |-> FALSE,
     pre |-> NoState, key |-> "", val |-> NoValue, env |-> NoEnv,
     old |-> <<>>, echo |-> {}, nmet |-> 0, pm2st |-> "", recent |-> FALSE,
     shell |-> <<>>]

Init ==
    /\ registry = [h \in Hashes |-> ZeroAddress]
    /\ deployed = 0
    /\ agents = {}
    /\ nextId = 1
    /\ tree = [h \in Hashes |-> NoTree]
    /\ cwd = BaseDir
    /\ procs = [n \in Pm2Names |-> 0]
    /\ tip = [h \in Hashes |-> 1]
    /\ faults = 0
    /\ delivered = 0
    /\ lastClean = <<>>
    /\ hist = {}
    /\ run = [k \in Reqs |-> IdleRun]
    /\ rpcDown = FALSE
    /\ secrets = <<>>
    /\ metrics = <<>>
    /\ oauth = {}
    /\ pm2conn = FALSE
    /\ lateConnects = {}
    /\ ethers = EthersAfterStartup(TRUE, TRUE)
    /\ vaults = [h \in Hashes |-> NoVault]

\* variant: the require of registerAgent is left out
RegisterNeverReverts(reg, h) == FALSE

\* ------------------------------------------------- contracts/AgentFactory
\* require(agents[_branchHash] == address(0), "Agent already registered")
RegisterReverts(reg, h) == reg[h] # ZeroAddress

\* agents[_branchHash] = address(new Agent(msg.sender))
RegistryAfterRegister(reg, n, h, sender) ==
    IF RegisterReverts(reg, h) THEN reg
    ELSE [reg EXCEPT ![h] = AgentAddr(n + 1, sender)]

DeployedAfterRegister(reg, n, h) ==
    IF RegisterReverts(reg, h) THEN n ELSE n + 1

\* the Agent contract created by new Agent(msg.sender)
VaultsAfterRegister(v, reg, h, sender) ==
    IF RegisterReverts(reg, h) THEN v ELSE [v EXCEPT ![h] = NewVault(sender)]

\* registerAgent sent by an account other than the controller's wallet
ExternalRegister(h) ==
    /\ \A j \in DOMAIN run : run[j].pc # "done"
    /\ registry' = RegistryAfterRegister(registry, deployed, h, Stranger)
    /\ deployed' = DeployedAfterRegister(registry, deployed, h)
    /\ vaults' = VaultsAfterRegister(vaults, registry, h, Stranger)
    /\ UNCHANGED <<agents, nextId, tree, cwd, procs, tip, faults, delivered,
                   lastClean, hist, run, rpcDown, ethers, pm2conn, lateConnects, store>>


\* ------------------------------------------------------------ HTTP replies
Reply(status, body) == [status |-> status, body |-> body]

\* sendResponse of the push endpoint: guarded by responseSent / headersSent,
\* clears the 25 s timer
SendResponse(r, status, body) ==
    IF ~r.sent /\ r.resp = <<>>
    THEN [r EXCEPT !.sent = TRUE, !.timer = "cleared",
                   !.resp = Append(@, Reply(status, body))]
    ELSE r

\* res.status(..).send(..) of the generic endpoint
ResSend(r, status, body) == [r EXCEPT !.resp = Append(@, Reply(status, body))]

\* res.status(..).json(..): vals are the request and token values it carries
JsonReply(r, status, vals) ==
    [r EXCEPT !.resp = Append(@, Reply(status, "json")), !.echo = @ \cup vals]

Finish(r, out) == [r EXCEPT !.pc = "done", !.out = out]

\* variant: the query finds no row
RowByHashNone(tbl, h) == NoAgent

\* db.get('SELECT * FROM agents WHERE branch_hash = ?')
RowByHash(tbl, h) ==
    IF \E a \in tbl : a.branch_hash = h
    THEN CHOOSE a \in tbl : a.branch_hash = h
    ELSE NoAgent

\* the request is accepted: branch_name, branch_hash, and db.get is issued
Accept(r, tbl) ==
    LET b == BranchNameOf(r.ref)
        h == BranchHash(r.url, b)
    IN [r EXCEPT !.bname = b, !.bh = h, !.pc = "dbget",
                 !.agent = RowByHash(tbl, h),
                 !.again = (r.alone /\ lastClean = h),
                 !.pre = StateOf(h)]

\* variant: the push endpoint starts the work without answering first
PushSyncWorkFirst(r, tbl) ==
    IF r.evt = "ping" THEN Finish(SendResponse(r, 200, "ack"), "ping")
    ELSE IF ~Truthy(r.url) THEN Finish(SendResponse(r, 400, "text"), "invalid")
    ELSE IF ~Truthy(r.ref) THEN Finish(SendResponse(r, 400, "text"), "invalid")
    ELSE IF r.ref = NotAString THEN Finish(r, "threw")
    ELSE IF BranchNameOf(r.ref) = ""
         THEN Finish(SendResponse(r, 400, "text"), "invalid")
    ELSE Accept(r, tbl)

\* variant: the push endpoint answers 200 when ref is missing
PushSyncAcksMissingRef(r, tbl) ==
    IF r.evt = "ping" THEN Finish(SendResponse(r, 200, "ack"), "ping")
    ELSE IF ~Truthy(r.url) THEN Finish(SendResponse(r, 400, "text"), "invalid")
    ELSE IF ~Truthy(r.ref) THEN Finish(SendResponse(r, 200, "text"), "invalid")
    ELSE IF r.ref = NotAString THEN Finish(r, "threw")
    ELSE IF BranchNameOf(r.ref) = ""
         THEN Finish(SendResponse(r, 400, "text"), "invalid")
    ELSE Accept(SendResponse(r, 200, "text"), tbl)

\* synchronous part of app.post('/webhook/github/push')
PushSync(r, tbl) ==
    IF r.evt = "ping" THEN Finish(SendResponse(r, 200, "ack"), "ping")
    ELSE IF ~Truthy(r.url) THEN Finish(SendResponse(r, 400, "text"), "invalid")
    ELSE IF ~Truthy(r.ref) THEN Finish(SendResponse(r, 400, "text"), "invalid")
    ELSE IF r.ref = NotAString THEN Finish(r, "threw")
    ELSE IF BranchNameOf(r.ref) = ""
         THEN Finish(SendResponse(r, 400, "text"), "invalid")
    ELSE Accept(SendResponse(r, 200, "text"), tbl)

\* synchronous part of app.post('/webhook/github')
GenericSync(r, tbl) ==
    IF r.evt = "ping" THEN Finish(ResSend(r, 200, "ack"), "ping")
    ELSE IF r.evt = "push" THEN
         IF ~Truthy(r.url) THEN Finish(ResSend(r, 400, "text"), "invalid")
         ELSE IF ~Truthy(r.ref) THEN Finish(ResSend(r, 400, "text"), "invalid")
         ELSE IF r.ref = NotAString THEN Finish(ResSend(r, 500, "error"), "threw")
         ELSE IF BranchNameOf(r.ref) = ""
              THEN Finish(ResSend(r, 400, "text"), "invalid")
         ELSE Accept(ResSend(r, 200, "text"), tbl)
    ELSE Finish(ResSend(r, 200, "text"), "ignored")

InFlight == {j \in Reqs : run[j].pc \notin {"idle", "done"}}

\* The record of a run that has ended is history only.  It is dropped
\* (Forget) before anything else happens, except its own timer: dropping it
\* commutes with every other action, so no behaviour of the controller is
\* lost and ended runs do not multiply the states of the running ones.
Quiet == \A j \in Reqs : run[j].pc # "done"

\* the handler run k has just ended
Ended(k) == run[k].pc # "done" /\ run'[k].pc = "done"

\* bookkeeping: the latest run that ended started, undisturbed and without
\* an injected failure, and deployed the commit that is the upstream tip
Track(k) ==
    /\ lastClean' =
          IF Ended(k)
          THEN IF /\ run'[k].out = "started" /\ run'[k].alone /\ ~run'[k].faulted
                  /\ tree'[run'[k].bh].head = tip[run'[k].bh]
               THEN run'[k].bh
               ELSE IF run'[k].bh = lastClean \/ run'[k].bh = <<>> THEN <<>> ELSE lastClean
          ELSE lastClean
    /\ hist' = IF Ended(k) /\ (run'[k].regCalls > 0 \/ (rpcDown /\ run'[k].out = "chainerror"))
               THEN hist \cup {<<run'[k].regRes, run'[k].out>>}
               ELSE hist

\* a webhook delivery arrives
Receive(k, ep, evt, url, ref) ==
    /\ Quiet
    /\ run[k].pc = "idle"
    /\ \A j \in Reqs : j < k => run[j].pc # "idle"
    /\ delivered' = delivered + 1
    /\ LET r0 == [IdleRun EXCEPT !.ep = ep, !.evt = evt, !.url = url, !.ref = ref,
                                !.alone = (InFlight = {}),
                                !.timer = IF ep = "push" THEN "armed" ELSE "none"]
           r1 == IF ep = "push" THEN PushSync(r0, agents) ELSE GenericSync(r0, agents)
       IN run' = [j \in Reqs |->
                    IF j = k THEN r1
                    ELSE IF j \in InFlight THEN [run[j] EXCEPT !.alone = FALSE]
                    ELSE run[j]]
    /\ UNCHANGED <<registry, deployed, agents, nextId, tree, cwd, procs, tip, faults,
                   lastClean, hist, rpcDown, ethers, vaults, pm2conn, lateConnects, store>>

\* variant: the timer callback sends nothing
TimerReplySilent(r) == [r EXCEPT !.timer = "fired"]

\* the timer callback: if (!res.headersSent) res.status(200).send(..)
TimerReply(r) ==
    [r EXCEPT !.timer = "fired",
              !.resp = IF @ = <<>> THEN <<Reply(200, "text")>> ELSE @]

\* the 25 s safety timer of the push endpoint
TimerFire(k) ==
    /\ run[k].timer = "armed"
    /\ run[k].pc # "idle"
    /\ run' = [run EXCEPT ![k] = TimerReply(@)]
    /\ UNCHANGED <<registry, deployed, agents, nextId, tree, cwd, procs, tip, faults,
                   delivered, lastClean, hist, rpcDown, ethers, vaults,
                   pm2conn, lateConnects, store>>

\* the record of an ended, answered run is dropped
Forget(k) ==
    /\ run[k].pc = "done"
    /\ run[k].timer # "armed"
    /\ run' = [run EXCEPT ![k] = IdleRun]
    /\ UNCHANGED <<registry, deployed, agents, nextId, tree, cwd, procs, tip, faults,
                   delivered, lastClean, hist, rpcDown, ethers, vaults,
                   pm2conn, lateConnects, store>>

\* a new commit is pushed to an upstream branch
UpstreamCommit(h) ==
    /\ Quiet
    /\ tip[h] < MaxTip
    /\ tip' = [tip EXCEPT ![h] = @ + 1]
    /\ lastClean' = IF lastClean = h THEN <<>> ELSE lastClean
    /\ run' = [j \in Reqs |-> IF run[j].bh = h THEN [run[j] EXCEPT !.again = FALSE]
                                ELSE run[j]]
    /\ UNCHANGED <<registry, deployed, agents, nextId, tree, cwd, procs, faults,
                   delivered, hist, rpcDown, ethers, vaults, pm2conn, lateConnects, store>>


\* ------------------------------------------------------------ environment
\* a failure may be injected while the budget lasts
CanFail(n) == faults + n <= MaxFaults
Cost(f) == IF f THEN 1 ELSE 0
\* a call to the chain fails while the RPC endpoint is unreachable; such a
\* failure is the outage's, not one more injected failure
RpcFails(f) == (rpcDown \/ ~HasClient(ethers)) => f
RpcCost(f) == IF rpcDown \/ ~HasClient(ethers) THEN 0 ELSE Cost(f)
Mark(r, f) == [r EXCEPT !.faulted = @ \/ f]

\* ------------------------------------------------------------- table agents
\* UPDATE agents SET status = ? WHERE id = ?
SetStatus(tbl, id, st) ==
    {IF a.id = id THEN [a EXCEPT !.status = st] ELSE a : a \in tbl}

\* UPDATE agents SET agent_address = ? WHERE id = ?
SetAddress(tbl, id, addr) ==
    {IF a.id = id THEN [a EXCEPT !.agent_address = addr] ELSE a : a \in tbl}

\* UPDATE agents SET agent_address = ?, status = 'deploying' WHERE id = ?
SetAddressDeploying(tbl, id, addr) ==
    {IF a.id = id THEN [a EXCEPT !.agent_address = addr, !.status = "deploying"]
     ELSE a : a \in tbl}

\* variant: the row is keyed on the repository alone
NewRowKeyedByRepo(id, r) ==
    [id |-> id, repo_url |-> r.url, branch_name |-> r.bname, branch_hash |-> r.url,
     agent_address |-> r.addr, status |-> "deploying"]

\* variant: the row is inserted without the registered address
NewRowNoAddress(id, r) ==
    [id |-> id, repo_url |-> r.url, branch_name |-> r.bname, branch_hash |-> r.bh,
     agent_address |-> ZeroAddress, status |-> "deploying"]

\* the row of INSERT INTO agents (repo_url, branch_name, branch_hash,
\* agent_address, status) VALUES (?, ?, ?, ?, 'deploying')
NewRow(id, r) ==
    [id |-> id, repo_url |-> r.url, branch_name |-> r.bname, branch_hash |-> r.bh,
     agent_address |-> r.addr, status |-> "deploying"]

\* branch_hash TEXT NOT NULL UNIQUE
InsertFails(tbl, h) == \E a \in tbl : a.branch_hash = h

\* ---------------------------------------------------------------- workspace
\* shell.cd(agentPath): the directory changes only if agentPath exists
Cd(tr, dir, h) == IF tr[h] # NoTree THEN h ELSE dir

\* git reset --hard HEAD; git fetch origin && git checkout b && git pull
\* origin b; npm install -- all run in the current directory dir
GitSync(tr, dir, b, ok) ==
    IF dir \in Hashes /\ tr[dir] # NoTree /\ ok
    THEN [tr EXCEPT ![dir] = [repo |-> @.repo, branch |-> b,
                              head |-> tip[BranchHash(@.repo, b)]]]
    ELSE tr

\* existing-agent path: shell.cd(agentPath) and sync, no existence check
PullTree(tr, dir, h, b, ok) == GitSync(tr, Cd(tr, dir, h), b, ok)

\* variant: the clone is left out
CloneOrPullNoClone(tr, dir, h, url, b, ok) ==
    IF tr[h] # NoTree THEN GitSync(tr, h, b, ok) ELSE tr

\* new-agent path: fs.existsSync(agentPath) ? sync : git clone --branch b
CloneOrPull(tr, dir, h, url, b, ok) ==
    IF tr[h] # NoTree THEN GitSync(tr, h, b, ok)
    ELSE IF ok THEN [tr EXCEPT ![h] = [repo |-> url, branch |-> b, head |-> tip[h]]]
    ELSE tr

\* one shell.exec: the command, the directory it ran in, whether it exited 0
ShellCmd(c, dir, ok) == [cmd |-> c, dir |-> dir, ok |-> ok]

\* the commands of a sync in directory dir, in the order they are executed.
\* The injected failure is that of git fetch: the shell stops the && chain
\* there; shell.exec returns the exit code and the handler goes on
SyncLog(dir, ok) ==
    <<ShellCmd("reset", dir, TRUE)>>
    \o (IF ok THEN <<ShellCmd("fetch", dir, TRUE), ShellCmd("checkout", dir, TRUE),
                     ShellCmd("pull", dir, TRUE)>>
        ELSE <<ShellCmd("fetch", dir, FALSE)>>)
    \o <<ShellCmd("install", dir, TRUE)>>

\* git clone url agentPath; shell.cd(agentPath); npm install -- after a
\* failed clone the directory is missing and install runs where the process is
CloneLog(dir, h, ok) ==
    <<ShellCmd("clone", h, ok), ShellCmd("install", IF ok THEN h ELSE dir, TRUE)>>

\* the run after shell.cd(agentPath) and a sync, started in directory dir
RanSync(r, tr, dir, g) ==
    [Mark(r, g) EXCEPT !.shell = @ \o SyncLog(Cd(tr, dir, r.bh), ~g)]

\* the run after fs.existsSync(agentPath) ? sync : clone
RanCloneOrSync(r, tr, dir, g) ==
    [Mark(r, g) EXCEPT !.shell = @ \o IF tr[r.bh] # NoTree THEN SyncLog(r.bh, ~g)
                                       ELSE CloneLog(dir, r.bh, ~g)]

\* fs.existsSync(path.join(agentPath, 'agent.ts')): tracked repositories
\* carry the entrypoint, so it exists exactly when the tree does
HasEntrypoint(tr, h) == tr[h] # NoTree

\* startOrReloadAgent up to its first suspension (db.all on secrets)
EnterSor(r, agent, site) ==
    [r EXCEPT !.agent = agent, !.site = site, !.pc = "sor_env"]


\* ------------------------------------- app.post('/webhook/github/push')
\* clone-or-pull, then issue the SELECT of step 2d
PushCloneAndSelect(k, r, g) ==
    LET t2 == CloneOrPull(tree, cwd, r.bh, r.url, r.bname, ~g)
    IN /\ tree' = t2
       /\ cwd' = Cd(t2, cwd, r.bh)
       /\ run' = [run EXCEPT ![k] =
                    [RanCloneOrSync(r, tree, cwd, g) EXCEPT !.pc = "select",
                                       !.agent = RowByHash(agents, r.bh)]]

\* variant: a branch without a row is deployed without asking the registry
PushFallthroughUnchecked(k, r, g) ==
    IF r.agent # NoAgent
    THEN /\ tree' = PullTree(tree, cwd, r.bh, r.bname, ~g)
         /\ cwd' = Cd(tree, cwd, r.bh)
         /\ run' = [run EXCEPT ![k] = EnterSor(RanSync(r, tree, cwd, g), r.agent, "B")]
    ELSE PushCloneAndSelect(k, r, g)

\* the code after the on-chain check: if (agent) {pull, start} else {deploy}
PushFallthrough(k, r, g) ==
    IF r.agent # NoAgent
    THEN /\ tree' = PullTree(tree, cwd, r.bh, r.bname, ~g)
         /\ cwd' = Cd(tree, cwd, r.bh)
         /\ run' = [run EXCEPT ![k] = EnterSor(RanSync(r, tree, cwd, g), r.agent, "B")]
    ELSE IF IsZero(r.addr)
    THEN /\ g = FALSE
         /\ run' = [run EXCEPT ![k] = [r EXCEPT !.pc = "lookup2"]]
         /\ UNCHANGED <<tree, cwd>>
    ELSE PushCloneAndSelect(k, r, g)

\* callback of the first db.get: getEthersSetup, then agents(branch_hash)
PushDbGetCb(k, f) ==
    /\ Quiet
    /\ run[k].pc = "dbget" /\ run[k].ep = "push"
    /\ CanFail(Cost(f))
    /\ faults' = faults + Cost(f)
    /\ run' = [run EXCEPT ![k] =
                 IF f THEN Finish(Mark(@, f), "dberror")
                 ELSE [@ EXCEPT !.pc = "lookup1", !.worked = TRUE]]
    /\ UNCHANGED <<registry, deployed, agents, nextId, tree, cwd, procs, tip>>
    /\ Track(k)
    /\ UNCHANGED <<delivered, rpcDown, ethers, vaults, pm2conn, lateConnects, store>>

\* the on-chain check (try ... catch (checkError)) and what follows it
PushLookup1Cb(k, f, g) ==
    /\ Quiet
    /\ run[k].pc = "lookup1" /\ run[k].ep = "push"
    /\ RpcFails(f)
    /\ CanFail(RpcCost(f) + Cost(g))
    /\ faults' = faults + RpcCost(f) + Cost(g)
    /\ LET r == Mark(run[k], f)
           onChain == registry[r.bh]
       IN IF f \/ IsZero(onChain)
          THEN /\ PushFallthrough(k, r, g)
               /\ UNCHANGED agents
          ELSE IF r.agent # NoAgent
          THEN LET a2 == [r.agent EXCEPT !.agent_address = onChain]
               IN /\ agents' = IF r.agent.agent_address # onChain
                               THEN SetAddress(agents, r.agent.id, onChain)
                               ELSE agents
                  /\ tree' = PullTree(tree, cwd, r.bh, r.bname, ~g)
                  /\ cwd' = Cd(tree, cwd, r.bh)
                  /\ run' = [run EXCEPT ![k] =
                               EnterSor([RanSync(r, tree, cwd, g) EXCEPT !.addr = onChain], a2, "A")]
          ELSE /\ PushFallthrough(k, [r EXCEPT !.addr = onChain], g)
               /\ UNCHANGED agents
    /\ UNCHANGED <<registry, deployed, nextId, procs, tip>>
    /\ Track(k)
    /\ UNCHANGED <<delivered, rpcDown, ethers, vaults, pm2conn, lateConnects, store>>

\* step 2b: the double check agents(branch_hash) of the new-agent path
PushLookup2Cb(k, f, g) ==
    /\ Quiet
    /\ run[k].pc = "lookup2" /\ run[k].ep = "push"
    /\ RpcFails(f)
    /\ CanFail(RpcCost(f) + Cost(g))
    /\ faults' = faults + RpcCost(f) + Cost(g)
    /\ LET r == Mark(run[k], f)
           onChain == registry[r.bh]
       IN IF f
          THEN /\ g = FALSE
               /\ run' = [run EXCEPT ![k] = Finish(r, "chainerror")]
               /\ UNCHANGED <<tree, cwd>>
          ELSE IF IsZero(onChain)
          THEN /\ g = FALSE
               /\ run' = [run EXCEPT ![k] =
                            [r EXCEPT !.pc = "register", !.addr = onChain,
                                      !.regCalls = @ + 1]]
               /\ UNCHANGED <<tree, cwd>>
          ELSE PushCloneAndSelect(k, [r EXCEPT !.addr = onChain], g)
    /\ UNCHANGED <<registry, deployed, agents, nextId, procs, tip>>
    /\ Track(k)
    /\ UNCHANGED <<delivered, rpcDown, ethers, vaults, pm2conn, lateConnects, store>>

\* registerAgent(branch_hash) and tx.wait(); 'Agent already registered' is
\* caught, any other failure is rethrown to catch (contractError)
RegisterCb(k, f) ==
    /\ Quiet
    /\ run[k].pc = "register"
    /\ RpcFails(f)
    /\ CanFail(RpcCost(f))
    /\ faults' = faults + RpcCost(f)
    /\ LET r == Mark(run[k], f)
       IN IF f
          THEN /\ run' = [run EXCEPT ![k] =
                            Finish([r EXCEPT !.regRes = "error"], "chainerror")]
               /\ UNCHANGED <<registry, deployed, vaults>>
          ELSE /\ registry' = RegistryAfterRegister(registry, deployed, r.bh, Backend)
               /\ deployed' = DeployedAfterRegister(registry, deployed, r.bh)
               /\ vaults' = VaultsAfterRegister(vaults, registry, r.bh, Backend)
               /\ run' = [run EXCEPT ![k] =
                            [r EXCEPT !.pc = "lookup3",
                                      !.regRes = IF RegisterReverts(registry, r.bh)
                                                 THEN "already" ELSE "ok"]]
    /\ UNCHANGED <<agents, nextId, tree, cwd, procs, tip>>
    /\ Track(k)
    /\ UNCHANGED <<delivered, rpcDown, ethers, pm2conn, lateConnects, store>>

\* agents(branch_hash) after the registration, then the address check
Lookup3Cb(k, f, g) ==
    /\ Quiet
    /\ run[k].pc = "lookup3"
    /\ RpcFails(f)
    /\ CanFail(RpcCost(f) + Cost(g))
    /\ faults' = faults + RpcCost(f) + Cost(g)
    /\ LET r == Mark(run[k], f)
           onChain == registry[r.bh]
       IN IF f \/ IsZero(onChain)
          THEN /\ g = FALSE
               /\ run' = [run EXCEPT ![k] = Finish(r, "chainerror")]
               /\ UNCHANGED <<tree, cwd>>
          ELSE PushCloneAndSelect(k, [r EXCEPT !.addr = onChain], g)
    /\ UNCHANGED <<registry, deployed, agents, nextId, procs, tip>>
    /\ Track(k)
    /\ UNCHANGED <<delivered, rpcDown, ethers, vaults, pm2conn, lateConnects, store>>

\* step 2d: UPDATE the row found by the SELECT, or INSERT a new one
SelectCb(k) ==
    /\ Quiet
    /\ run[k].pc = "select"
    /\ LET r == run[k]
       IN IF r.agent # NoAgent
          THEN /\ agents' = SetAddressDeploying(agents, r.agent.id, r.addr)
               /\ nextId' = nextId
               /\ run' = [run EXCEPT ![k] =
                            [r EXCEPT !.pc = "written", !.ok = TRUE,
                                      !.agent = [@ EXCEPT !.agent_address = r.addr]]]
          ELSE IF InsertFails(agents, r.bh)
          THEN /\ UNCHANGED <<agents, nextId>>
               /\ run' = [run EXCEPT ![k] = [r EXCEPT !.pc = "written", !.ok = FALSE]]
          ELSE /\ agents' = agents \cup {NewRow(nextId, r)}
               /\ nextId' = nextId + 1
               /\ run' = [run EXCEPT ![k] =
                            [r EXCEPT !.pc = "written", !.ok = TRUE,
                                      !.agent = NewRow(nextId, r)]]
    /\ UNCHANGED <<registry, deployed, tree, cwd, procs, tip, faults>>
    /\ Track(k)
    /\ UNCHANGED <<delivered, rpcDown, ethers, vaults, pm2conn, lateConnects, store>>


\* ----------------------------------------- app.post('/webhook/github')
\* if (agent) {clone or pull, start} else {register unless agentAddress}
GenericFallthrough(k, r, g) ==
    IF r.agent # NoAgent
    THEN LET t2 == CloneOrPull(tree, cwd, r.bh, r.url, r.bname, ~g)
         IN /\ tree' = t2
            /\ cwd' = Cd(t2, cwd, r.bh)
            /\ run' = [run EXCEPT ![k] = EnterSor(RanCloneOrSync(r, tree, cwd, g), r.agent, "GB")]
    ELSE IF r.addr = NullAddr
    THEN /\ g = FALSE
         /\ run' = [run EXCEPT ![k] =
                      [r EXCEPT !.pc = "register", !.regCalls = @ + 1]]
         /\ UNCHANGED <<tree, cwd>>
    ELSE IF IsZero(r.addr)
    THEN /\ g = FALSE
         /\ run' = [run EXCEPT ![k] = Finish(r, "chainerror")]
         /\ UNCHANGED <<tree, cwd>>
    ELSE PushCloneAndSelect(k, r, g)

GenericDbGetCb(k, f) ==
    /\ Quiet
    /\ run[k].pc = "dbget" /\ run[k].ep = "generic"
    /\ CanFail(Cost(f))
    /\ faults' = faults + Cost(f)
    /\ run' = [run EXCEPT ![k] =
                 IF f THEN Finish(Mark(@, f), "dberror")
                 ELSE [@ EXCEPT !.pc = "lookup1", !.worked = TRUE]]
    /\ UNCHANGED <<registry, deployed, agents, nextId, tree, cwd, procs, tip>>
    /\ Track(k)
    /\ UNCHANGED <<delivered, rpcDown, ethers, vaults, pm2conn, lateConnects, store>>

\* agentAddress = await factoryContract.agents(branch_hash), inside try
GenericLookup1Cb(k, f, g) ==
    /\ Quiet
    /\ run[k].pc = "lookup1" /\ run[k].ep = "generic"
    /\ RpcFails(f)
    /\ CanFail(RpcCost(f) + Cost(g))
    /\ faults' = faults + RpcCost(f) + Cost(g)
    /\ LET r == Mark(run[k], f)
           onChain == registry[r.bh]
           r2 == [r EXCEPT !.addr = onChain]
       IN IF f
          THEN /\ GenericFallthrough(k, r, g)
               /\ UNCHANGED <<agents, nextId>>
          ELSE IF IsZero(onChain)
          THEN /\ GenericFallthrough(k, r2, g)
               /\ UNCHANGED <<agents, nextId>>
          ELSE IF r.agent # NoAgent
          THEN LET a2 == [r.agent EXCEPT !.agent_address = onChain]
               IN /\ agents' = IF r.agent.agent_address # onChain
                               THEN SetAddress(agents, r.agent.id, onChain)
                               ELSE agents
                  /\ nextId' = nextId
                  /\ tree' = PullTree(tree, cwd, r.bh, r.bname, ~g)
                  /\ cwd' = Cd(tree, cwd, r.bh)
                  /\ run' = [run EXCEPT ![k] = EnterSor(RanSync(r2, tree, cwd, g), a2, "GA")]
          ELSE /\ g = FALSE
               /\ UNCHANGED <<tree, cwd>>
               /\ IF InsertFails(agents, r.bh)
                  THEN /\ UNCHANGED <<agents, nextId>>
                       /\ run' = [run EXCEPT ![k] =
                                    [r2 EXCEPT !.pc = "g_ins", !.ok = FALSE]]
                  ELSE /\ agents' = agents \cup {NewRow(nextId, r2)}
                       /\ nextId' = nextId + 1
                       /\ run' = [run EXCEPT ![k] =
                                    [r2 EXCEPT !.pc = "g_ins", !.ok = TRUE,
                                               !.agent = NewRow(nextId, r2)]]
    /\ UNCHANGED <<registry, deployed, procs, tip>>
    /\ Track(k)
    /\ UNCHANGED <<delivered, rpcDown, ethers, vaults, pm2conn, lateConnects, store>>

\* callback of the INSERT for an agent found on-chain but not in the table
GenericInsCb(k, g) ==
    /\ Quiet
    /\ run[k].pc = "g_ins"
    /\ CanFail(Cost(g))
    /\ faults' = faults + Cost(g)
    /\ GenericFallthrough(k, run[k], g)
    /\ UNCHANGED <<registry, deployed, agents, nextId, procs, tip>>
    /\ Track(k)
    /\ UNCHANGED <<delivered, rpcDown, ethers, vaults, pm2conn, lateConnects, store>>

\* callback of the UPDATE / INSERT of step 2d, then startOrReloadAgent
WrittenCb(k) ==
    /\ Quiet
    /\ run[k].pc = "written"
    /\ run' = [run EXCEPT ![k] =
                 IF ~@.ok THEN Finish(@, "dberror")
                 ELSE EnterSor(@, @.agent, IF @.ep = "push" THEN "C" ELSE "GC")]
    /\ UNCHANGED <<registry, deployed, agents, nextId, tree, cwd, procs, tip, faults>>
    /\ Track(k)
    /\ UNCHANGED <<delivered, rpcDown, ethers, vaults, pm2conn, lateConnects, store>>

\* --------------------------------------------------- startOrReloadAgent
\* the manual trigger and the restart endpoint answer once
\* startOrReloadAgent has settled: the JSON of the deployment, or 500 from
\* the catch; the other callers have answered already or have no request
\* to answer
SorReply(r, succ) ==
    IF r.site \in {"M", "RS"}
    THEN JsonReply(r, IF succ THEN 200 ELSE 500, {})
    ELSE r

\* the promise of startOrReloadAgent settles; tbl is table agents after the
\* status write.  A rejection at call site A is caught by catch (checkError)
\* and the handler goes on with the if (agent) block; the generic endpoint
\* catches it (pm2Error) and writes status error.
SorSettle(k, r, succ, g, tbl) ==
    IF succ
    THEN /\ g = FALSE
         /\ agents' = tbl
         /\ run' = [run EXCEPT ![k] = Finish(SorReply(r, TRUE), "started")]
         /\ UNCHANGED <<tree, cwd>>
    ELSE IF r.site = "A"
    THEN /\ agents' = tbl
         /\ PushFallthrough(k, r, g)
    ELSE /\ g = FALSE
         /\ agents' = IF r.site \in {"GA", "GB", "GC"}
                      THEN SetStatus(tbl, r.agent.id, "error") ELSE tbl
         /\ run' = [run EXCEPT ![k] = Finish(SorReply(r, FALSE), "startfailed")]
         /\ UNCHANGED <<tree, cwd>>

\* ------------------------------------------------------------ table secrets
SecretRow(id, key, c) == [agent_id |-> id, key |-> key, encrypted_value |-> c]

\* SELECT key, encrypted_value FROM secrets WHERE agent_id = ?
SecretsOf(tbl, id) == SelectSeq(tbl, LAMBDA s : s.agent_id = id)

\* SELECT .. FROM secrets s INNER JOIN agents a ON s.agent_id = a.id
\* WHERE a.branch_hash = ? AND a.id != ?
OldSecrets(tbl, ag, h, id) ==
    SelectSeq(tbl, LAMBDA s : \E a \in ag :
                       a.id = s.agent_id /\ a.branch_hash = h /\ a.id # id)

\* INSERT OR REPLACE INTO secrets (agent_id, key, encrypted_value): the
\* table has no uniqueness constraint besides its rowid, so a row is added
PutSecret(tbl, id, key, c) == Append(tbl, SecretRow(id, key, c))

\* the migration loop: each old secret is stored under the current id
MigrateTo(tbl, old, id) ==
    tbl \o [i \in 1..Len(old) |-> SecretRow(id, old[i].key, old[i].encrypted_value)]

\* table secrets after the lookup of startOrReloadAgent for agent id
SecretsAfterLookup(tbl, ag, h, id) ==
    IF SecretsOf(tbl, id) = <<>>
    THEN MigrateTo(tbl, OldSecrets(tbl, ag, h, id), id)
    ELSE tbl

\* rows.forEach(row => secrets[row.key] = crypto.decrypt(row.encrypted_value))
BuildEnv(rows) ==
    [x \in Keys |->
        LET at == {i \in 1..Len(rows) : rows[i].key = x}
        IN IF at = {} THEN NoValue
           ELSE Decrypt(rows[CHOOSE i \in at : \A j \in at : j <= i].encrypted_value)]

\* callback of db.all on secrets: secrets of an earlier id are looked for if
\* there is none, the environment is built, connect is issued.  (The join,
\* the migration inserts and the re-query are database calls issued back to
\* back by this one run.)
SorEnvCb(k) ==
    /\ Quiet
    /\ run[k].pc = "sor_env"
    /\ LET r == run[k]
           s2 == SecretsAfterLookup(secrets, agents, r.bh, r.agent.id)
       IN /\ secrets' = s2
          /\ run' = [run EXCEPT ![k] =
                       [r EXCEPT !.pc = "sor_connect",
                                 !.env = BuildEnv(SecretsOf(s2, r.agent.id))]]
    /\ UNCHANGED <<registry, deployed, agents, nextId, tree, cwd, procs, tip, faults>>
    /\ Track(k)
    /\ UNCHANGED <<delivered, rpcDown, ethers, vaults, pm2conn, lateConnects, metrics, oauth>>

\* callback of safePm2.connect
SorConnectCb(k, f, g) ==
    /\ Quiet
    /\ run[k].pc = "sor_connect"
    /\ CanFail(Cost(f) + Cost(g))
    /\ faults' = faults + Cost(f) + Cost(g)
    /\ IF f
       THEN SorSettle(k, Mark(run[k], f), FALSE, g,
                      SetStatus(agents, run[k].agent.id, "error"))
       ELSE /\ g = FALSE
            /\ run' = [run EXCEPT ![k] = [@ EXCEPT !.pc = "sor_list"]]
            /\ UNCHANGED <<agents, tree, cwd>>
    /\ UNCHANGED <<registry, deployed, nextId, procs, tip>>
    /\ Track(k)
    /\ UNCHANGED <<delivered, rpcDown, ethers, vaults, store>>
    /\ UNCHANGED lateConnects
    /\ pm2conn' = (IF f THEN pm2conn ELSE TRUE)

\* callback of safePm2.list: delete an existing process, or start if the
\* entrypoint exists
SorListCb(k, f, g) ==
    /\ Quiet
    /\ run[k].pc = "sor_list"
    /\ CanFail(Cost(f) + Cost(g))
    /\ faults' = faults + Cost(f) + Cost(g)
    /\ LET r == Mark(run[k], f)
       IN IF f \/ (procs[Pm2Name(r.bh)] = 0 /\ ~HasEntrypoint(tree, r.bh))
          THEN SorSettle(k, r, FALSE, g, SetStatus(agents, r.agent.id, "error"))
          ELSE /\ g = FALSE
               /\ run' = [run EXCEPT ![k] =
                            [r EXCEPT !.pc = IF procs[Pm2Name(r.bh)] > 0
                                             THEN "sor_delete" ELSE "sor_start"]]
               /\ UNCHANGED <<agents, tree, cwd>>
    /\ UNCHANGED <<registry, deployed, nextId, procs, tip>>
    /\ Track(k)
    /\ UNCHANGED <<delivered, rpcDown, ethers, vaults, store>>
    /\ UNCHANGED lateConnects
    /\ pm2conn' = (IF f \/ (procs[Pm2Name(run[k].bh)] = 0 /\ ~HasEntrypoint(tree, run[k].bh))
                   THEN FALSE ELSE pm2conn)

\* variant: delete leaves the processes in place
ProcsAfterDeleteKeeps(ps, n) == ps

\* supervisor: delete removes every process of that name, and fails if
\* there is none
ProcsAfterDelete(ps, n) == [ps EXCEPT ![n] = 0]

\* supervisor: start adds a process; a start that races with another start
\* of the same name either restarts that process or adds a second one
ProcsAfterStart(ps, n, dup) ==
    [ps EXCEPT ![n] = IF @ = 0 THEN 1 ELSE IF dup THEN @ + 1 ELSE @]

\* callback of safePm2.delete: start afresh, or fall back to reload
SorDeleteCb(k, f) ==
    /\ Quiet
    /\ run[k].pc = "sor_delete"
    /\ CanFail(Cost(f))
    /\ faults' = faults + Cost(f)
    /\ LET r == Mark(run[k], f)
           n == Pm2Name(r.bh)
       IN IF f \/ procs[n] = 0
          THEN /\ run' = [run EXCEPT ![k] = [r EXCEPT !.pc = "sor_reload"]]
               /\ procs' = procs
          ELSE /\ run' = [run EXCEPT ![k] = [r EXCEPT !.pc = "sor_start"]]
               /\ procs' = ProcsAfterDelete(procs, n)
    /\ UNCHANGED <<registry, deployed, agents, nextId, tree, cwd, tip>>
    /\ Track(k)
    /\ UNCHANGED <<delivered, rpcDown, ethers, vaults, pm2conn, lateConnects, store>>

\* callback of safePm2.reload (fallback after a failed delete)
SorReloadCb(k, f, g) ==
    /\ Quiet
    /\ run[k].pc = "sor_reload"
    /\ CanFail(Cost(f) + Cost(g))
    /\ faults' = faults + Cost(f) + Cost(g)
    /\ LET r == Mark(run[k], f)
       IN IF f \/ procs[Pm2Name(r.bh)] = 0
          THEN SorSettle(k, r, FALSE, g, SetStatus(agents, r.agent.id, "error"))
          ELSE SorSettle(k, r, TRUE, g, SetStatus(agents, r.agent.id, "running"))
    /\ UNCHANGED <<registry, deployed, nextId, procs, tip>>
    /\ Track(k)
    /\ UNCHANGED <<delivered, rpcDown, ethers, vaults, store>>
    /\ UNCHANGED lateConnects
    /\ pm2conn' = FALSE

\* callback of safePm2.start
SorStartCb(k, f, dup, g) ==
    /\ Quiet
    /\ run[k].pc = "sor_start"
    /\ CanFail(Cost(f) + Cost(g))
    /\ faults' = faults + Cost(f) + Cost(g)
    /\ dup => procs[Pm2Name(run[k].bh)] > 0
    /\ LET r == Mark(run[k], f)
           n == Pm2Name(r.bh)
       IN IF f \/ ~HasEntrypoint(tree, r.bh)
          THEN /\ dup = FALSE
               /\ procs' = procs
               /\ SorSettle(k, r, FALSE, g, SetStatus(agents, r.agent.id, "error"))
          ELSE /\ procs' = ProcsAfterStart(procs, n, dup)
               /\ SorSettle(k, r, TRUE, g, SetStatus(agents, r.agent.id, "running"))
    /\ UNCHANGED <<registry, deployed, nextId, tip>>
    /\ Track(k)
    /\ UNCHANGED <<delivered, rpcDown, ethers, vaults, store>>
    /\ UNCHANGED lateConnects
    /\ pm2conn' = FALSE

\* ---------------------------------------------------------------- RPC outage
\* the RPC endpoint becomes unreachable / reachable again
RpcGoesDown ==
    /\ Quiet
    /\ ~rpcDown
    /\ rpcDown' = TRUE
    /\ UNCHANGED <<registry, deployed, agents, nextId, tree, cwd, procs, tip, faults,
                   delivered, lastClean, hist, run, ethers, vaults, pm2conn, lateConnects, store>>

RpcComesBack ==
    /\ Quiet
    /\ rpcDown
    /\ InFlight = {}
    /\ rpcDown' = FALSE
    /\ UNCHANGED <<registry, deployed, agents, nextId, tree, cwd, procs, tip, faults,
                   delivered, lastClean, hist, run, ethers, vaults, pm2conn, lateConnects, store>>

\* ------------------------------------------------------------ JSON endpoints
\* branch_name as the body of a request gives it (missing, or main)
ApiBranches == {"", "main"}

\* a request arrives; r1 is the run after the synchronous part of its handler
ApiReceive(k, r1) ==
    /\ Quiet
    /\ run[k].pc = "idle"
    /\ \A j \in Reqs : j < k => run[j].pc # "idle"
    /\ delivered' = delivered + 1
    /\ run' = [j \in Reqs |->
                 IF j = k THEN [r1 EXCEPT !.alone = (InFlight = {})]
                 ELSE IF j \in InFlight THEN [run[j] EXCEPT !.alone = FALSE]
                 ELSE run[j]]
    /\ UNCHANGED <<registry, deployed, agents, nextId, tree, cwd, procs, tip, faults,
                   lastClean, hist, rpcDown, ethers, vaults, pm2conn, lateConnects, store>>

ApiStart(ep, bname) ==
    [IdleRun EXCEPT !.ep = ep, !.evt = "api", !.url = RepoUrl, !.bname = bname]

\* branch_hash = ethers.id(repo_url + "/" + branch_name), and the db.get
\* on table agents is issued
ApiAccept(r, tbl, pc) ==
    LET h == BranchHash(r.url, r.bname)
    IN [r EXCEPT !.bh = h, !.pc = pc, !.agent = RowByHash(tbl, h),
                 !.pre = StateOf(h), !.nmet = Len(metrics), !.worked = TRUE]

\* ------------------------------------------------- app.post('/api/secrets')
SecretReceive(k, bname, key, val) ==
    ApiReceive(k, LET r0 == [ApiStart("secrets", bname) EXCEPT !.key = key, !.val = val]
                  IN IF bname = ""
                     THEN Finish(JsonReply(r0, 400, {}), "invalid")
                     ELSE ApiAccept(r0, agents, "sec_get"))

\* callback of db.get: 404 without a row, else encrypt and INSERT OR REPLACE.
\* A database error is thrown inside the callback, where no catch is in
\* scope: the request is never answered.
SecretGetCb(k, f) ==
    /\ Quiet
    /\ run[k].pc = "sec_get"
    /\ CanFail(Cost(f))
    /\ faults' = faults + Cost(f)
    /\ LET r == Mark(run[k], f)
       IN IF f
          THEN /\ run' = [run EXCEPT ![k] = Finish(r, "threw")]
               /\ secrets' = secrets
          ELSE IF r.agent = NoAgent
          THEN /\ run' = [run EXCEPT ![k] = Finish(JsonReply(r, 404, {}), "notfound")]
               /\ secrets' = secrets
          ELSE /\ secrets' = PutSecret(secrets, r.agent.id, r.key, Encrypt(r.val))
               /\ run' = [run EXCEPT ![k] = [r EXCEPT !.pc = "sec_put"]]
    /\ UNCHANGED <<registry, deployed, agents, nextId, tree, cwd, procs, tip,
                   delivered, lastClean, hist, rpcDown, ethers, vaults,
                   pm2conn, lateConnects, metrics, oauth>>

\* callback of the INSERT OR REPLACE: 201 {success, agent_id, key}
SecretPutCb(k) ==
    /\ Quiet
    /\ run[k].pc = "sec_put"
    /\ run' = [run EXCEPT ![k] = Finish(JsonReply(@, 201, {<<@.key>>}), "stored")]
    /\ UNCHANGED <<registry, deployed, agents, nextId, tree, cwd, procs, tip, faults,
                   delivered, lastClean, hist, rpcDown, ethers, vaults,
                   pm2conn, lateConnects, store>>

\* ------------------------------------------------- app.post('/api/metrics')
\* the decision a worker reports
Decisions == {"HOLD"}

MetricRow(id, d) == [agent_id |-> id, decision |-> d]

\* variant: the metric is not written
PutMetricDropped(tbl, id, d) == tbl

\* INSERT INTO metrics (agent_id, decision, ...)
PutMetric(tbl, id, d) == Append(tbl, MetricRow(id, d))

\* the row of the self-healing INSERT: status 'running'
HealedRow(id, r) == [NewRow(id, r) EXCEPT !.status = "running"]

MetricReceive(k, bname, d) ==
    ApiReceive(k, LET r0 == [ApiStart("metrics", bname) EXCEPT !.key = d]
                  IN IF bname = ""
                     THEN Finish(JsonReply(r0, 400, {}), "invalid")
                     ELSE ApiAccept(r0, agents, "met_get"))

\* callback of db.get: the metric is inserted for a known agent, else the
\* registry is asked
MetricGetCb(k, f) ==
    /\ Quiet
    /\ run[k].pc = "met_get"
    /\ CanFail(Cost(f))
    /\ faults' = faults + Cost(f)
    /\ LET r == Mark(run[k], f)
       IN IF f
          THEN /\ run' = [run EXCEPT ![k] = Finish(JsonReply(r, 500, {}), "dberror")]
               /\ metrics' = metrics
          ELSE IF r.agent = NoAgent
          THEN /\ run' = [run EXCEPT ![k] = [r EXCEPT !.pc = "met_lookup"]]
               /\ metrics' = metrics
          ELSE /\ metrics' = PutMetric(metrics, r.agent.id, r.key)
               /\ run' = [run EXCEPT ![k] = [r EXCEPT !.pc = "met_put"]]
    /\ UNCHANGED <<registry, deployed, agents, nextId, tree, cwd, procs, tip,
                   delivered, lastClean, hist, rpcDown, ethers, vaults,
                   pm2conn, lateConnects, secrets, oauth>>

\* agents(branch_hash): a registered agent gets its row, status running
MetricLookupCb(k, f) ==
    /\ Quiet
    /\ run[k].pc = "met_lookup"
    /\ RpcFails(f)
    /\ CanFail(RpcCost(f))
    /\ faults' = faults + RpcCost(f)
    /\ LET r == Mark(run[k], f)
           onChain == registry[r.bh]
           r2 == [r EXCEPT !.addr = onChain]
       IN IF f
          THEN /\ run' = [run EXCEPT ![k] = Finish(JsonReply(r, 500, {}), "chainerror")]
               /\ UNCHANGED <<agents, nextId>>
          ELSE IF IsZero(onChain)
          THEN /\ run' = [run EXCEPT ![k] = Finish(JsonReply(r2, 404, {}), "notfound")]
               /\ UNCHANGED <<agents, nextId>>
          ELSE IF InsertFails(agents, r.bh)
          THEN /\ run' = [run EXCEPT ![k] = [r2 EXCEPT !.pc = "met_ins", !.ok = FALSE]]
               /\ UNCHANGED <<agents, nextId>>
          ELSE /\ agents' = agents \cup {HealedRow(nextId, r2)}
               /\ nextId' = nextId + 1
               /\ run' = [run EXCEPT ![k] =
                            [r2 EXCEPT !.pc = "met_ins", !.ok = TRUE,
                                       !.agent = HealedRow(nextId, r2)]]
    /\ UNCHANGED <<registry, deployed, tree, cwd, procs, tip,
                   delivered, lastClean, hist, rpcDown, ethers, vaults,
                   pm2conn, lateConnects, store>>

\* callback of the INSERT INTO agents: the metric is inserted for this.lastID
MetricInsCb(k) ==
    /\ Quiet
    /\ run[k].pc = "met_ins"
    /\ LET r == run[k]
       IN IF ~r.ok
          THEN /\ run' = [run EXCEPT ![k] = Finish(JsonReply(r, 500, {}), "dberror")]
               /\ metrics' = metrics
          ELSE /\ metrics' = PutMetric(metrics, r.agent.id, r.key)
               /\ run' = [run EXCEPT ![k] = [r EXCEPT !.pc = "met_put"]]
    /\ UNCHANGED <<registry, deployed, agents, nextId, tree, cwd, procs, tip, faults,
                   delivered, lastClean, hist, rpcDown, ethers, vaults,
                   pm2conn, lateConnects, secrets, oauth>>

\* callback of the INSERT INTO metrics: 201 {success, metric_id}
MetricPutCb(k) ==
    /\ Quiet
    /\ run[k].pc = "met_put"
    /\ run' = [run EXCEPT ![k] = Finish(JsonReply(@, 201, {}), "recorded")]
    /\ UNCHANGED <<registry, deployed, agents, nextId, tree, cwd, procs, tip, faults,
                   delivered, lastClean, hist, rpcDown, ethers, vaults,
                   pm2conn, lateConnects, store>>

\* --------------------------------- app.post('/api/agents/manual-trigger')
ManualReceive(k, bname) ==
    ApiReceive(k, LET r0 == ApiStart("manual", bname)
                  IN IF bname = ""
                     THEN Finish(JsonReply(r0, 400, {}), "invalid")
                     ELSE ApiAccept(r0, agents, "man_get"))

\* callback of db.get: an existing row is reported, else the registry is asked
ManualGetCb(k, f) ==
    /\ Quiet
    /\ run[k].pc = "man_get"
    /\ CanFail(Cost(f))
    /\ faults' = faults + Cost(f)
    /\ run' = [run EXCEPT ![k] =
                 IF f THEN Finish(JsonReply(Mark(@, f), 500, {}), "dberror")
                 ELSE IF @.agent # NoAgent THEN Finish(JsonReply(@, 200, {}), "exists")
                 ELSE [@ EXCEPT !.pc = "man_lookup"]]
    /\ UNCHANGED <<registry, deployed, agents, nextId, tree, cwd, procs, tip,
                   delivered, lastClean, hist, rpcDown, ethers, vaults,
                   pm2conn, lateConnects, store>>

\* if (!dirExists) {git clone; cd; npm install}, then the INSERT is issued
ManualCloneAndInsert(k, r, g) ==
    LET t2 == IF tree[r.bh] = NoTree
              THEN CloneOrPull(tree, cwd, r.bh, r.url, r.bname, ~g)
              ELSE tree
        rg == IF tree[r.bh] = NoTree THEN RanCloneOrSync(r, tree, cwd, g) ELSE Mark(r, g)
    IN /\ tree' = t2
       /\ cwd' = IF tree[r.bh] = NoTree THEN Cd(t2, cwd, r.bh) ELSE cwd
       /\ IF InsertFails(agents, r.bh)
          THEN /\ UNCHANGED <<agents, nextId>>
               /\ run' = [run EXCEPT ![k] = [rg EXCEPT !.pc = "man_ins", !.ok = FALSE]]
          ELSE /\ agents' = agents \cup {NewRow(nextId, r)}
               /\ nextId' = nextId + 1
               /\ run' = [run EXCEPT ![k] =
                            [rg EXCEPT !.pc = "man_ins", !.ok = TRUE,
                                               !.agent = NewRow(nextId, r)]]

\* agents(branch_hash): register if zero, else deploy
ManualLookupCb(k, f, g) ==
    /\ Quiet
    /\ run[k].pc = "man_lookup"
    /\ RpcFails(f)
    /\ CanFail(RpcCost(f) + Cost(g))
    /\ faults' = faults + RpcCost(f) + Cost(g)
    /\ LET r == Mark(run[k], f)
           onChain == registry[r.bh]
       IN IF f
          THEN /\ g = FALSE
               /\ run' = [run EXCEPT ![k] = Finish(JsonReply(r, 500, {}), "chainerror")]
               /\ UNCHANGED <<agents, nextId, tree, cwd>>
          ELSE IF IsZero(onChain)
          THEN /\ g = FALSE
               /\ run' = [run EXCEPT ![k] =
                            [r EXCEPT !.pc = "man_register", !.addr = onChain,
                                      !.regCalls = @ + 1]]
               /\ UNCHANGED <<agents, nextId, tree, cwd>>
          ELSE ManualCloneAndInsert(k, [r EXCEPT !.addr = onChain], g)
    /\ UNCHANGED <<registry, deployed, procs, tip,
                   delivered, lastClean, hist, rpcDown, ethers, vaults,
                   pm2conn, lateConnects, store>>

\* registerAgent and tx.wait(): any failure, a revert included, goes to the
\* catch of the handler
ManualRegisterCb(k, f) ==
    /\ Quiet
    /\ run[k].pc = "man_register"
    /\ RpcFails(f)
    /\ CanFail(RpcCost(f))
    /\ faults' = faults + RpcCost(f)
    /\ LET r == Mark(run[k], f)
       IN IF f \/ RegisterReverts(registry, r.bh)
          THEN /\ run' = [run EXCEPT ![k] =
                            Finish(JsonReply([r EXCEPT !.regRes =
                                                 IF f THEN "error" ELSE "already"],
                                             500, {}), "chainerror")]
               /\ UNCHANGED <<registry, deployed, vaults>>
          ELSE /\ registry' = RegistryAfterRegister(registry, deployed, r.bh, Backend)
               /\ deployed' = DeployedAfterRegister(registry, deployed, r.bh)
               /\ vaults' = VaultsAfterRegister(vaults, registry, r.bh, Backend)
               /\ run' = [run EXCEPT ![k] =
                            [r EXCEPT !.pc = "man_lookup3", !.regRes = "ok"]]
    /\ UNCHANGED <<agents, nextId, tree, cwd, procs, tip,
                   delivered, lastClean, hist, rpcDown, ethers,
                   pm2conn, lateConnects, store>>

\* agents(branch_hash) after the registration, then the address check
ManualLookup3Cb(k, f, g) ==
    /\ Quiet
    /\ run[k].pc = "man_lookup3"
    /\ RpcFails(f)
    /\ CanFail(RpcCost(f) + Cost(g))
    /\ faults' = faults + RpcCost(f) + Cost(g)
    /\ LET r == Mark(run[k], f)
           onChain == registry[r.bh]
       IN IF f \/ IsZero(onChain)
          THEN /\ g = FALSE
               /\ run' = [run EXCEPT ![k] = Finish(JsonReply(r, 500, {}), "chainerror")]
               /\ UNCHANGED <<agents, nextId, tree, cwd>>
          ELSE ManualCloneAndInsert(k, [r EXCEPT !.addr = onChain], g)
    /\ UNCHANGED <<registry, deployed, procs, tip,
                   delivered, lastClean, hist, rpcDown, ethers, vaults,
                   pm2conn, lateConnects, store>>

\* callback of the INSERT: startOrReloadAgent, or 500 from the catch
ManualInsCb(k) ==
    /\ Quiet
    /\ run[k].pc = "man_ins"
    /\ run' = [run EXCEPT ![k] =
                 IF ~@.ok THEN Finish(JsonReply(@, 500, {}), "dberror")
                 ELSE EnterSor(@, @.agent, "M")]
    /\ UNCHANGED <<registry, deployed, agents, nextId, tree, cwd, procs, tip, faults,
                   delivered, lastClean, hist, rpcDown, ethers, vaults,
                   pm2conn, lateConnects, store>>

\* --------------------------------------------- recoverAgentsFromBlockchain
\* the hard-coded list knownAgents, as far as the tracked branches go
KnownAgents == {<<RepoUrl, "main">>}

\* SELECT .. FROM secrets s INNER JOIN agents a ON s.agent_id = a.id
\* WHERE a.branch_hash = ?
SecretsOfHash(tbl, ag, h) ==
    SelectSeq(tbl, LAMBDA s : \E a \in ag : a.id = s.agent_id /\ a.branch_hash = h)

\* app.listen's callback, or a request to /api/agents/check-recovery, calls
\* recoverAgentsFromBlockchain: the COUNT query is issued
RecoverStart(k) ==
    ApiReceive(k, [IdleRun EXCEPT !.ep = "recover", !.evt = "api", !.pc = "rec_count"])

\* callback of the COUNT query: the loop over knownAgents begins with
\* agents(branch_hash) for the entry
RecCountCb(k, f) ==
    /\ Quiet
    /\ run[k].pc = "rec_count"
    /\ CanFail(Cost(f))
    /\ faults' = faults + Cost(f)
    /\ \E info \in KnownAgents :
         run' = [run EXCEPT ![k] =
                   IF f THEN Finish(Mark(@, f), "dberror")
                   ELSE [@ EXCEPT !.url = info[1], !.bname = info[2],
                                  !.bh = BranchHash(info[1], info[2]),
                                  !.pre = StateOf(BranchHash(info[1], info[2])),
                                  !.worked = TRUE, !.pc = "rec_lookup"]]
    /\ UNCHANGED <<registry, deployed, agents, nextId, tree, cwd, procs, tip,
                   delivered, lastClean, hist, rpcDown, ethers, vaults,
                   pm2conn, lateConnects, store>>

\* agents(branch_hash): a registered branch is looked up in table agents
RecLookupCb(k, f) ==
    /\ Quiet
    /\ run[k].pc = "rec_lookup"
    /\ RpcFails(f)
    /\ CanFail(RpcCost(f))
    /\ faults' = faults + RpcCost(f)
    /\ LET r == Mark(run[k], f)
           onChain == registry[r.bh]
       IN run' = [run EXCEPT ![k] =
                    IF f THEN Finish(r, "chainerror")
                    ELSE IF IsZero(onChain) THEN Finish([r EXCEPT !.addr = onChain], "nothing")
                    ELSE [r EXCEPT !.addr = onChain, !.agent = RowByHash(agents, r.bh),
                                   !.pc = "rec_get"]]
    /\ UNCHANGED <<registry, deployed, agents, nextId, tree, cwd, procs, tip,
                   delivered, lastClean, hist, rpcDown, ethers, vaults,
                   pm2conn, lateConnects, store>>

\* callback of db.get: nothing to do for a branch that has its row, else the
\* join for secrets of earlier rows of the branch is issued
RecGetCb(k, f) ==
    /\ Quiet
    /\ run[k].pc = "rec_get"
    /\ CanFail(Cost(f))
    /\ faults' = faults + Cost(f)
    /\ run' = [run EXCEPT ![k] =
                 IF f THEN Finish(Mark(@, f), "dberror")
                 ELSE IF @.agent # NoAgent THEN Finish(@, "present")
                 ELSE [@ EXCEPT !.old = SecretsOfHash(secrets, agents, @.bh),
                                !.pc = "rec_old"]]
    /\ UNCHANGED <<registry, deployed, agents, nextId, tree, cwd, procs, tip,
                   delivered, lastClean, hist, rpcDown, ethers, vaults,
                   pm2conn, lateConnects, store>>

\* callback of the join: INSERT INTO agents .. 'deploying' is issued
RecOldCb(k) ==
    /\ Quiet
    /\ run[k].pc = "rec_old"
    /\ LET r == run[k]
       IN IF InsertFails(agents, r.bh)
          THEN /\ UNCHANGED <<agents, nextId>>
               /\ run' = [run EXCEPT ![k] = [r EXCEPT !.pc = "rec_ins", !.ok = FALSE]]
          ELSE /\ agents' = agents \cup {NewRow(nextId, r)}
               /\ nextId' = nextId + 1
               /\ run' = [run EXCEPT ![k] =
                            [r EXCEPT !.pc = "rec_ins", !.ok = TRUE,
                                      !.agent = NewRow(nextId, r)]]
    /\ UNCHANGED <<registry, deployed, tree, cwd, procs, tip, faults,
                   delivered, lastClean, hist, rpcDown, ethers, vaults,
                   pm2conn, lateConnects, store>>

\* callback of the INSERT: the old secrets are stored under the new id (one
\* awaited INSERT OR REPLACE each), the tree is cloned or pulled, and the
\* worker is started if agent.ts exists.  git is taken to succeed here.
RecInsCb(k) ==
    /\ Quiet
    /\ run[k].pc = "rec_ins"
    /\ LET r == run[k]
           t2 == CloneOrPull(tree, cwd, r.bh, r.url, r.bname, TRUE)
       IN IF ~r.ok
          THEN /\ run' = [run EXCEPT ![k] = Finish(r, "dberror")]
               /\ UNCHANGED <<secrets, tree, cwd>>
          ELSE /\ secrets' = MigrateTo(secrets, r.old, r.agent.id)
               /\ tree' = t2
               /\ cwd' = r.bh
               /\ run' = [run EXCEPT ![k] =
                            IF HasEntrypoint(t2, r.bh) THEN EnterSor(r, r.agent, "R")
                            ELSE Finish(r, "nostart")]
    /\ UNCHANGED <<registry, deployed, agents, nextId, procs, tip, faults,
                   delivered, lastClean, hist, rpcDown, ethers, vaults,
                   pm2conn, lateConnects, metrics, oauth>>

\* ------------------------------------------ app.get('/auth/github/callback')
GrantRow(user, tok, url) ==
    [user_id |-> user, access_token |-> tok, encrypted_token |-> Encrypt(tok),
     repo_url |-> url, webhook_configured |-> 0]

\* INSERT OR REPLACE INTO github_oauth: one grant per user
PutGrant(tbl, row) == {o \in tbl : o.user_id # row.user_id} \cup {row}

\* UPDATE github_oauth SET webhook_configured = 1 WHERE user_id = ?
SetConfigured(tbl, user) ==
    {IF o.user_id = user THEN [o EXCEPT !.webhook_configured = 1] ELSE o : o \in tbl}

\* the callback arrives; with a code, the exchange for a token is issued
OAuthReceive(k, code) ==
    ApiReceive(k, LET r0 == [IdleRun EXCEPT !.ep = "oauth", !.evt = "api", !.url = RepoUrl]
                  IN IF ~code
                     THEN Finish(ResSend(r0, 400, "text"), "invalid")
                     ELSE [r0 EXCEPT !.pc = "oa_token"])

\* the token and the user arrive from the git host: the grant is stored
OAuthTokenCb(k, f, user, tok) ==
    /\ Quiet
    /\ run[k].pc = "oa_token"
    /\ CanFail(Cost(f))
    /\ faults' = faults + Cost(f)
    /\ LET r == Mark(run[k], f)
       IN IF f
          THEN /\ run' = [run EXCEPT ![k] = Finish(ResSend(r, 500, "error"), "hosterror")]
               /\ oauth' = oauth
          ELSE /\ oauth' = PutGrant(oauth, GrantRow(user, tok, r.url))
               /\ run' = [run EXCEPT ![k] = [r EXCEPT !.key = user, !.val = tok,
                                                      !.pc = "oa_store"]]
    /\ UNCHANGED <<registry, deployed, agents, nextId, tree, cwd, procs, tip,
                   delivered, lastClean, hist, rpcDown, ethers, vaults,
                   pm2conn, lateConnects, secrets, metrics>>

\* callback of the INSERT OR REPLACE: the webhook is set up at the git host
\* (created, found, or refused), and a page is sent
OAuthStoreCb(k, hook) ==
    /\ Quiet
    /\ run[k].pc = "oa_store"
    /\ oauth' = IF hook = "created" THEN SetConfigured(oauth, run[k].key) ELSE oauth
    /\ run' = [run EXCEPT ![k] = Finish(ResSend(@, 200, "text"), "granted")]
    /\ UNCHANGED <<registry, deployed, agents, nextId, tree, cwd, procs, tip, faults,
                   delivered, lastClean, hist, rpcDown, ethers, vaults,
                   pm2conn, lateConnects, secrets, metrics>>

\* --------------------------------------------------------- loss of the rows
\* The rows of table agents are lost (the table is emptied; foreign keys are
\* not enforced, so the other tables keep their rows, and the AUTOINCREMENT
\* sequence goes on).  With wipe, the host was redeployed: working trees and
\* worker processes are gone as well.
LoseAgents(wipe) ==
    /\ Quiet
    /\ InFlight = {}
    /\ agents # {}
    /\ agents' = {}
    /\ tree' = IF wipe THEN [h \in Hashes |-> NoTree] ELSE tree
    /\ cwd' = IF wipe THEN BaseDir ELSE cwd
    /\ procs' = IF wipe THEN [n \in Pm2Names |-> 0] ELSE procs
    /\ lastClean' = <<>>
    /\ UNCHANGED <<registry, deployed, nextId, tip, faults, delivered, hist, run,
                   rpcDown, ethers, vaults, pm2conn, lateConnects, store>>

\* ------------------------------------------------- app.get('/api/agents')
\* pm2_env.status of a listed process; the pass acts on the first three
Pm2Statuses == {"online", "stopped", "errored", "launching"}

\* variant: an online process does not bring the status back to running
SyncStatusIgnoresOnline(old, p, recent) ==
    IF p = "online" THEN old
    ELSE IF p \in {"stopped", "errored"}
    THEN IF recent THEN "running"
         ELSE IF old # "error" THEN "error" ELSE old
    ELSE IF p = "missing"
    THEN IF recent
         THEN IF old # "running" THEN "running" ELSE old
         ELSE IF old = "running" THEN "error" ELSE old
    ELSE old

\* variant: a running agent whose process is stopped stays running
SyncStatusKeepsRunning(old, p, recent) ==
    IF recent \/ p = "online" THEN "running"
    ELSE IF p \in {"stopped", "errored"} /\ old = "deploying" THEN "error"
    ELSE old

\* the status of a row after the pass: old is the status in the rows of
\* db.all, p the supervisor's status of its process (missing: not in the
\* list), recent whether metrics of the last five minutes exist
SyncStatus(old, p, recent) ==
    IF p = "online"
    THEN IF recent
         THEN IF old # "running" THEN "running" ELSE old
         ELSE IF old \in {"error", "deploying"} THEN "running" ELSE old
    ELSE IF p \in {"stopped", "errored"}
    THEN IF recent THEN "running"
         ELSE IF old # "error" THEN "error" ELSE old
    ELSE IF p = "missing"
    THEN IF recent
         THEN IF old # "running" THEN "running" ELSE old
         ELSE IF old = "running" THEN "error" ELSE old
    ELSE old

\* GET /api/agents: db.all on table agents is issued (the model has the one
\* branch, so rows holds at most its row)
ListReceive(k) ==
    ApiReceive(k, ApiAccept(ApiStart("agents", "main"), agents, "ls_all"))

\* callback of db.all: with rows, safePm2.connect is issued for the
\* background pass; the rows are sent at once
ListAllCb(k, f) ==
    /\ Quiet
    /\ run[k].pc = "ls_all"
    /\ CanFail(Cost(f))
    /\ faults' = faults + Cost(f)
    /\ LET r == Mark(run[k], f)
       IN run' = [run EXCEPT ![k] =
                    IF f THEN Finish(JsonReply(r, 500, {}), "dberror")
                    ELSE IF r.agent = NoAgent
                    THEN Finish(JsonReply(r, 200, {}), "listed")
                    ELSE [JsonReply(r, 200, {}) EXCEPT !.pc = "ls_connect"]]
    /\ UNCHANGED <<registry, deployed, agents, nextId, tree, cwd, procs, tip,
                   delivered, lastClean, hist, rpcDown, ethers, vaults,
                   pm2conn, lateConnects, store>>

\* callback of safePm2.connect in the pass
ListConnectCb(k, f) ==
    /\ Quiet
    /\ run[k].pc = "ls_connect"
    /\ CanFail(Cost(f))
    /\ faults' = faults + Cost(f)
    /\ run' = [run EXCEPT ![k] =
                 IF f THEN Finish(Mark(@, f), "syncfailed")
                 ELSE [@ EXCEPT !.pc = "ls_list"]]
    /\ UNCHANGED <<registry, deployed, agents, nextId, tree, cwd, procs, tip,
                   delivered, lastClean, hist, rpcDown, ethers, vaults, store>>
    /\ UNCHANGED lateConnects
    /\ pm2conn' = (IF f THEN pm2conn ELSE TRUE)

\* a startOrReloadAgent for branch hash h is between its delete and its
\* start: its handler found the process when it began, and the start is
\* the call it waits for
BetweenDeleteAndStart(h) ==
    \E j \in Reqs : run[j].bh = h /\ run[j].pc = "sor_start" /\ run[j].pre.procs > 0

\* callback of safePm2.list in the pass: st is the status the supervisor
\* reports for the process, rec whether the count of recent metrics will be
\* positive; the count is asked for and the connection is closed.  (hist
\* notes a list read between the delete and the start of a restart.)
ListListCb(k, f, st, rec) ==
    /\ Quiet
    /\ run[k].pc = "ls_list"
    /\ CanFail(Cost(f))
    /\ faults' = faults + Cost(f)
    /\ (st = "missing") = (procs[Pm2Name(run[k].bh)] = 0)
    /\ rec => \E i \in 1..Len(metrics) : metrics[i].agent_id = run[k].agent.id
    /\ (f \/ st = "launching") => ~rec
    /\ f => st \in {"missing", "online"}
    /\ LET r == Mark(run[k], f)
       IN run' = [run EXCEPT ![k] =
                    IF f THEN Finish(r, "syncfailed")
                    ELSE IF st = "launching"
                    THEN Finish([r EXCEPT !.pm2st = st], "synced")
                    ELSE [r EXCEPT !.pc = "ls_metric", !.pm2st = st, !.recent = rec]]
    /\ hist' = IF ~f /\ BetweenDeleteAndStart(run[k].bh)
               THEN hist \cup {<<"raced", "list">>} ELSE hist
    /\ UNCHANGED <<registry, deployed, agents, nextId, tree, cwd, procs, tip,
                   delivered, lastClean, rpcDown, ethers, vaults, store>>
    /\ UNCHANGED lateConnects
    /\ pm2conn' = FALSE

\* callback of the count of recent metrics: the status is written where it
\* differs from the one the pass read
ListMetricCb(k) ==
    /\ Quiet
    /\ run[k].pc = "ls_metric"
    /\ LET r == run[k]
           new == SyncStatus(r.agent.status, r.pm2st, r.recent)
       IN /\ agents' = IF new # r.agent.status \/ (r.recent /\ r.pm2st \in {"stopped", "errored"})
                       THEN SetStatus(agents, r.agent.id, new)
                       ELSE agents
          /\ run' = [run EXCEPT ![k] = Finish(r, "synced")]
    /\ UNCHANGED <<registry, deployed, nextId, tree, cwd, procs, tip, faults,
                   delivered, lastClean, hist, rpcDown, ethers, vaults,
                   pm2conn, lateConnects, store>>

\* the supervisor loses the processes of a name (pm2 delete or kill by hand)
SupervisorLoses(n) ==
    /\ Quiet
    /\ InFlight = {}
    /\ procs[n] > 0
    /\ procs' = [procs EXCEPT ![n] = 0]
    /\ UNCHANGED <<registry, deployed, agents, nextId, tree, cwd, tip, faults,
                   delivered, lastClean, hist, run, rpcDown, ethers, vaults,
                   pm2conn, lateConnects, store>>

\* --------------------------------------------- failures of the supervisor IPC
\* messages of the errors the IPC client raises outside any callback
IpcMessages == {"sock", "other"}

\* process.on('uncaughtException') and process.on('unhandledRejection'):
\* both branches log and return, the process goes on
AfterUncaught(msg) == IF msg = "sock" THEN "continue" ELSE "continue"

\* the calls of startOrReloadAgent that safePm2 passes on without a timer
UntimedCalls == {"sor_list", "sor_delete", "sor_start", "sor_reload"}

\* the IPC socket breaks while a call is pending: the client raises an
\* error with message msg outside the wrapper's try, the global handler
\* takes it, and the callback of the pending call is never invoked.  (For
\* connect the 5 s timer of the wrapper then reports the failure: that is
\* SorConnectCb with f.)
SupervisorCallLost(k, msg) ==
    /\ Quiet
    /\ run[k].pc \in UntimedCalls
    /\ CanFail(1)
    /\ faults' = faults + 1
    /\ run' = [run EXCEPT ![k] =
                 [Mark(@, TRUE) EXCEPT !.echo = {msg},
                                       !.pc = IF AfterUncaught(msg) = "continue"
                                              THEN "hung" ELSE "exited"]]
    /\ UNCHANGED <<registry, deployed, agents, nextId, tree, cwd, procs, tip,
                   delivered, lastClean, hist, rpcDown, ethers, vaults,
                   pm2conn, lateConnects, store>>

\* ------------------------------------------- the timer of safePm2.connect
\* the 5 s timer of safePm2.connect fires before pm2.connect has called
\* back: the caller gets 'PM2 connection timeout' (status error, rejection),
\* and pm2.connect is still to call back
SorConnectTimeout(k, g) ==
    /\ Quiet
    /\ run[k].pc = "sor_connect"
    /\ CanFail(1 + Cost(g))
    /\ faults' = faults + 1 + Cost(g)
    /\ SorSettle(k, Mark(run[k], TRUE), FALSE, g,
                 SetStatus(agents, run[k].agent.id, "error"))
    /\ lateConnects' = lateConnects \cup {[agent |-> run[k].agent, bh |-> run[k].bh]}
    /\ UNCHANGED <<registry, deployed, nextId, procs, tip>>
    /\ Track(k)
    /\ UNCHANGED <<delivered, rpcDown, ethers, vaults, pm2conn, store>>

\* pm2.connect calls back after the timer has fired: nothing tells the
\* wrapper that it has reported already, so the callback of
\* startOrReloadAgent runs a second time, without error, and issues
\* safePm2.list.  Slot k carries this continuation.
LateConnectCb(k) ==
    /\ Quiet
    /\ run[k].pc = "idle"
    /\ \A j \in Reqs : j < k => run[j].pc # "idle"
    /\ \E c \in lateConnects :
          /\ lateConnects' = lateConnects \ {c}
          /\ run' = [run EXCEPT ![k] =
                       [IdleRun EXCEPT !.ep = "late", !.evt = "late", !.url = RepoUrl,
                                       !.bh = c.bh, !.agent = c.agent, !.site = "L",
                                       !.faulted = TRUE, !.pc = "sor_list"]]
    /\ pm2conn' = TRUE
    /\ UNCHANGED <<registry, deployed, agents, nextId, tree, cwd, procs, tip, faults,
                   delivered, lastClean, hist, rpcDown, ethers, vaults, store>>

\* ------------------------------ startOrReloadAgent: the env promise fails
\* db.all on table secrets calls back with err: reject(err).  The promise of
\* startOrReloadAgent rejects before any of its status writes.
SorEnvDbError(k, g) ==
    /\ Quiet
    /\ run[k].pc = "sor_env"
    /\ CanFail(1 + Cost(g))
    /\ faults' = faults + 1 + Cost(g)
    /\ SorSettle(k, Mark(run[k], TRUE), FALSE, g, agents)
    /\ UNCHANGED <<registry, deployed, nextId, procs, tip>>
    /\ Track(k)
    /\ UNCHANGED <<delivered, rpcDown, ethers, vaults, pm2conn, lateConnects, store>>

\* crypto.decrypt throws inside the async callback of db.all: the throw
\* rejects the promise of the callback, which nobody holds (the handler of
\* unhandledRejection logs it); resolve and reject of the env promise are
\* never called, so the await of the caller never returns
AfterDecryptThrow(site) == "envhung"

\* callback of db.all on secrets when a stored value does not decrypt (it
\* was stored under another MASTER_SECRET_KEY): the migration, if any, has
\* run; the forEach throws at the first row
SorDecryptThrows(k) ==
    /\ Quiet
    /\ run[k].pc = "sor_env"
    /\ CanFail(1)
    /\ faults' = faults + 1
    /\ LET r == run[k]
           s2 == SecretsAfterLookup(secrets, agents, r.bh, r.agent.id)
       IN /\ SecretsOf(s2, r.agent.id) # <<>>
          /\ secrets' = s2
          /\ IF AfterDecryptThrow(r.site) = "envhung"
             THEN /\ run' = [run EXCEPT ![k] = [Mark(r, TRUE) EXCEPT !.pc = "envhung"]]
                  /\ UNCHANGED <<agents, tree, cwd>>
             ELSE SorSettle(k, Mark(r, TRUE), FALSE, FALSE, agents)
    /\ UNCHANGED <<registry, deployed, nextId, procs, tip>>
    /\ Track(k)
    /\ UNCHANGED <<delivered, rpcDown, ethers, vaults, pm2conn, lateConnects, metrics, oauth>>

\* ------------------------------ app.post('/api/agents/:id/restart')
\* the db.get on table agents is issued
RestartReceive(k, id) ==
    ApiReceive(k, LET a == IF \E x \in agents : x.id = id
                           THEN CHOOSE x \in agents : x.id = id ELSE NoAgent
                  IN [IdleRun EXCEPT !.ep = "restart", !.evt = "api", !.pc = "rst_get",
                                     !.agent = a, !.worked = TRUE,
                                     !.bh = IF a = NoAgent THEN <<>> ELSE a.branch_hash])

\* callback of db.get: 500 on a database error, 404 without a row, else
\* startOrReloadAgent
RestartGetCb(k, f) ==
    /\ Quiet
    /\ run[k].pc = "rst_get"
    /\ CanFail(Cost(f))
    /\ faults' = faults + Cost(f)
    /\ run' = [run EXCEPT ![k] =
                 IF f THEN Finish(JsonReply(Mark(@, f), 500, {}), "dberror")
                 ELSE IF @.agent = NoAgent THEN Finish(JsonReply(@, 404, {}), "notfound")
                 ELSE EnterSor(@, @.agent, "RS")]
    /\ UNCHANGED <<registry, deployed, agents, nextId, tree, cwd, procs, tip,
                   delivered, lastClean, hist, rpcDown, ethers, vaults,
                   pm2conn, lateConnects, store>>

\* ------------------------------------------- start without configuration
\* the controller process is started again with BACKEND_PRIVATE_KEY or
\* AGENT_FACTORY_ADDRESS missing from its environment: the module variables
\* are those the guarded getEthersSetup() at load leaves, the working
\* directory and the supervisor connection are those of a new process, and
\* the database, the working trees and the supervisor's processes are as
\* they were.  (The recovery at startup changes nothing: each of its
\* registry lookups throws inside its own try.)
StartWithout(key, factory) ==
    /\ Quiet
    /\ InFlight = {}
    /\ HasClient(ethers)
    /\ ~(key /\ factory)
    /\ ethers' = EthersAfterStartup(key, factory)
    /\ cwd' = BaseDir
    /\ pm2conn' = FALSE
    /\ lateConnects' = {}
    /\ UNCHANGED <<registry, deployed, agents, nextId, tree, procs, tip, faults,
                   delivered, lastClean, hist, run, rpcDown, vaults, store>>

\* ------------------------------------------- transactions sent to a vault
\* transactions reach the chain between the requests of the controller,
\* whose handlers never call a vault
VaultIdle(h) == Quiet /\ InFlight = {} /\ registry[h] # ZeroAddress

\* an account sends value to the vault of branch hash h
Deposit(h, caller, amount) ==
    /\ VaultIdle(h)
    /\ amount > 0
    /\ vaults[h].balance + amount <= MaxBalance
    /\ vaults' = [vaults EXCEPT ![h] = AfterReceive(@, caller, amount)]
    /\ UNCHANGED <<registry, deployed, agents, nextId, tree, cwd, procs, tip, faults,
                   delivered, lastClean, hist, run, rpcDown, ethers,
                   pm2conn, lateConnects, store>>

\* an account calls withdraw on the vault of branch hash h
Withdraw(h, caller, amount, sent) ==
    /\ VaultIdle(h)
    /\ vaults' = [vaults EXCEPT ![h] = AfterWithdraw(@, caller, amount, sent)]
    /\ UNCHANGED <<registry, deployed, agents, nextId, tree, cwd, procs, tip, faults,
                   delivered, lastClean, hist, run, rpcDown, ethers,
                   pm2conn, lateConnects, store>>

\* an account calls execute on the vault of branch hash h
Execute(h, caller, success) ==
    /\ VaultIdle(h)
    /\ vaults' = [vaults EXCEPT ![h] = AfterExecute(@, caller, success)]
    /\ UNCHANGED <<registry, deployed, agents, nextId, tree, cwd, procs, tip, faults,
                   delivered, lastClean, hist, run, rpcDown, ethers,
                   pm2conn, lateConnects, store>>

\* ------------------------------------------------------------ specification
\* the environment: timers, upstream commits, other users of the factory
Env ==
    \/ \E k \in Reqs : TimerFire(k)
    \/ \E k \in Reqs : Forget(k)
    \/ \E h \in Hashes : UpstreamCommit(h)
    \/ \E h \in Hashes : ExternalRegister(h)

\* the callbacks of the push endpoint and of startOrReloadAgent
Handle ==
    \/ \E k \in Reqs, f \in BOOLEAN : PushDbGetCb(k, f)
    \/ \E k \in Reqs, f, g \in BOOLEAN : PushLookup1Cb(k, f, g)
    \/ \E k \in Reqs, f, g \in BOOLEAN : PushLookup2Cb(k, f, g)
    \/ \E k \in Reqs, f \in BOOLEAN : RegisterCb(k, f)
    \/ \E k \in Reqs, f, g \in BOOLEAN : Lookup3Cb(k, f, g)
    \/ \E k \in Reqs : SelectCb(k)
    \/ \E k \in Reqs : WrittenCb(k)
    \/ \E k \in Reqs : SorEnvCb(k)
    \/ \E k \in Reqs, f, g \in BOOLEAN : SorConnectCb(k, f, g)
    \/ \E k \in Reqs, f, g \in BOOLEAN : SorListCb(k, f, g)
    \/ \E k \in Reqs, f \in BOOLEAN : SorDeleteCb(k, f)
    \/ \E k \in Reqs, f, g \in BOOLEAN : SorReloadCb(k, f, g)
    \/ \E k \in Reqs, f, dup, g \in BOOLEAN : SorStartCb(k, f, dup, g)

\* the callbacks of the generic endpoint
HandleGeneric ==
    \/ \E k \in Reqs, f \in BOOLEAN : GenericDbGetCb(k, f)
    \/ \E k \in Reqs, f, g \in BOOLEAN : GenericLookup1Cb(k, f, g)
    \/ \E k \in Reqs, g \in BOOLEAN : GenericInsCb(k, g)

\* deliveries to either endpoint, each after the previous run has ended
Deliver ==
    \E k \in Reqs, ep \in Endpoints, evt \in EventTypes, url \in CloneUrls, ref \in Refs :
        /\ delivered < MaxReqs
        /\ InFlight = {}
        /\ Receive(k, ep, evt, url, ref)

\* push deliveries to the push endpoint that may overlap
DeliverRace ==
    \E k \in Reqs, ref \in Refs :
        /\ delivered < MaxRace
        /\ Receive(k, "push", "push", RepoUrl, ref)

Next == Deliver \/ Env \/ Handle \/ HandleGeneric

Spec == Init /\ [][Next]_vars

NextRace == DeliverRace \/ Env \/ Handle

SpecRace == Init /\ [][NextRace]_vars

\* the environment of valid requests, without upstream commits: a valid push
\* is answered, and its timer cleared, before its first callback
EnvApi ==
    \/ \E k \in Reqs : Forget(k)
    \/ \E h \in Hashes : ExternalRegister(h)

\* pushes to the push endpoint, one after another, across RPC outages
DeliverPush ==
    \E k \in Reqs :
        /\ delivered < MaxReqs
        /\ InFlight = {}
        /\ Receive(k, "push", "push", RepoUrl, <<"refs", "heads", "main">>)

Outage == RpcGoesDown \/ RpcComesBack

NextOutage ==
    \/ DeliverPush
    \/ EnvApi
    \/ \E h \in Hashes : UpstreamCommit(h)
    \/ Handle
    \/ Outage

SpecOutage == Init /\ [][NextOutage]_vars

\* the callbacks of the JSON endpoints, of the recovery and of the OAuth callback
HandleApi ==
    \/ \E k \in Reqs, f \in BOOLEAN : SecretGetCb(k, f)
    \/ \E k \in Reqs : SecretPutCb(k)
    \/ \E k \in Reqs, f \in BOOLEAN : MetricGetCb(k, f)
    \/ \E k \in Reqs, f \in BOOLEAN : MetricLookupCb(k, f)
    \/ \E k \in Reqs : MetricInsCb(k)
    \/ \E k \in Reqs : MetricPutCb(k)
    \/ \E k \in Reqs, f \in BOOLEAN : ManualGetCb(k, f)
    \/ \E k \in Reqs, f, g \in BOOLEAN : ManualLookupCb(k, f, g)
    \/ \E k \in Reqs, f \in BOOLEAN : ManualRegisterCb(k, f)
    \/ \E k \in Reqs, f, g \in BOOLEAN : ManualLookup3Cb(k, f, g)
    \/ \E k \in Reqs : ManualInsCb(k)
    \/ \E k \in Reqs, f \in BOOLEAN : RecCountCb(k, f)
    \/ \E k \in Reqs, f \in BOOLEAN : RecLookupCb(k, f)
    \/ \E k \in Reqs, f \in BOOLEAN : RecGetCb(k, f)
    \/ \E k \in Reqs : RecOldCb(k)
    \/ \E k \in Reqs : RecInsCb(k)
    \/ \E k \in Reqs, f \in BOOLEAN, u \in Users, t \in Tokens : OAuthTokenCb(k, f, u, t)
    \/ \E k \in Reqs, hook \in {"created", "exists", "refused"} : OAuthStoreCb(k, hook)

\* valid pushes to either endpoint and requests to the other endpoints, each
\* after the previous run has ended
Request ==
    \E k \in Reqs :
        /\ delivered < MaxReqs
        /\ InFlight = {}
        /\ \/ \E ep \in Endpoints :
                 Receive(k, ep, "push", RepoUrl, <<"refs", "heads", "main">>)
           \/ \E b \in ApiBranches, key \in Keys, v \in Plain : SecretReceive(k, b, key, v)
           \/ \E b \in ApiBranches, d \in Decisions : MetricReceive(k, b, d)
           \/ \E b \in ApiBranches : ManualReceive(k, b)
           \/ RecoverStart(k)
           \/ \E code \in BOOLEAN : OAuthReceive(k, code)

Loss == \E wipe \in BOOLEAN : LoseAgents(wipe)

NextApi == Request \/ EnvApi \/ Loss \/ Handle \/ HandleGeneric \/ HandleApi

SpecApi == Init /\ [][NextApi]_vars

\* pushes of either ref to either endpoint, one after the other
DeliverRefs ==
    \E k \in Reqs, ep \in Endpoints, ref \in PushRefs :
        /\ delivered < MaxReqs
        /\ InFlight = {}
        /\ Receive(k, ep, "push", RepoUrl, ref)

NextRefs == DeliverRefs \/ EnvApi \/ Handle \/ HandleGeneric

SpecRefs == Init /\ [][NextRefs]_vars

\* the callbacks of /api/metrics and of /api/agents
HandleSync ==
    \/ \E k \in Reqs, f \in BOOLEAN : MetricGetCb(k, f)
    \/ \E k \in Reqs, f \in BOOLEAN : MetricLookupCb(k, f)
    \/ \E k \in Reqs : MetricInsCb(k)
    \/ \E k \in Reqs : MetricPutCb(k)
    \/ \E k \in Reqs, f \in BOOLEAN : ListAllCb(k, f)
    \/ \E k \in Reqs, f \in BOOLEAN : ListConnectCb(k, f)
    \/ \E k \in Reqs, f, rec \in BOOLEAN, st \in Pm2Statuses \cup {"missing"} :
          ListListCb(k, f, st, rec)
    \/ \E k \in Reqs : ListMetricCb(k)

\* pushes, metrics and listings, each after the previous run has ended
RequestSync ==
    \E k \in Reqs :
        /\ delivered < MaxReqs
        /\ InFlight = {}
        /\ \/ Receive(k, "push", "push", RepoUrl, <<"refs", "heads", "main">>)
           \/ \E d \in Decisions : MetricReceive(k, "main", d)
           \/ ListReceive(k)

NextSync ==
    \/ RequestSync
    \/ EnvApi
    \/ \E n \in Pm2Names : SupervisorLoses(n)
    \/ Handle
    \/ HandleSync

SpecSync == Init /\ [][NextSync]_vars

\* pushes to the push endpoint, each after the previous run has ended or
\* is left waiting for a supervisor callback that never comes
DeliverIpc ==
    \E k \in Reqs :
        /\ delivered < MaxReqs
        /\ \A j \in InFlight : run[j].pc = "hung"
        /\ Receive(k, "push", "push", RepoUrl, <<"refs", "heads", "main">>)

NextIpc ==
    \/ DeliverIpc
    \/ EnvApi
    \/ Handle
    \/ \E k \in Reqs, msg \in IpcMessages : SupervisorCallLost(k, msg)

SpecIpc == Init /\ [][NextIpc]_vars

\* pushes one after the other, with connects to the supervisor that take
\* longer than the timer of the wrapper
NextLate ==
    \/ DeliverPush
    \/ EnvApi
    \/ Handle
    \/ \E k \in Reqs, g \in BOOLEAN : SorConnectTimeout(k, g)
    \/ \E k \in Reqs : LateConnectCb(k)

SpecLate == Init /\ [][NextLate]_vars

\* pushes, secrets and restarts, each after the previous run has ended or
\* is left waiting for an env promise that never settles
RequestEnv ==
    \E k \in Reqs :
        /\ delivered < MaxReqs
        /\ \A j \in InFlight : run[j].pc = "envhung"
        /\ \/ Receive(k, "push", "push", RepoUrl, <<"refs", "heads", "main">>)
           \/ \E v \in Plain : SecretReceive(k, "main", "K", v)
           \/ \E id \in 1..nextId : RestartReceive(k, id)

NextEnv ==
    \/ RequestEnv
    \/ EnvApi
    \/ Handle
    \/ \E k \in Reqs, f \in BOOLEAN : SecretGetCb(k, f)
    \/ \E k \in Reqs : SecretPutCb(k)
    \/ \E k \in Reqs, f \in BOOLEAN : RestartGetCb(k, f)
    \/ \E k \in Reqs, g \in BOOLEAN : SorEnvDbError(k, g)
    \/ \E k \in Reqs : SorDecryptThrows(k)

SpecEnv == Init /\ [][NextEnv]_vars

\* pushes one after the other, before and after a start of the controller
\* without its key or without the factory address
NextNoKey ==
    \/ DeliverPush
    \/ EnvApi
    \/ Handle
    \/ \E key, factory \in BOOLEAN : StartWithout(key, factory)

SpecNoKey == Init /\ [][NextNoKey]_vars

\* pushes and metric posts for one branch that may overlap
RequestInsRace ==
    \E k \in Reqs :
        /\ delivered < MaxRace
        /\ \/ Receive(k, "push", "push", RepoUrl, <<"refs", "heads", "main">>)
           \/ \E d \in Decisions : MetricReceive(k, "main", d)

NextInsRace ==
    \/ RequestInsRace
    \/ EnvApi
    \/ Handle
    \/ \E k \in Reqs, f \in BOOLEAN : MetricGetCb(k, f)
    \/ \E k \in Reqs, f \in BOOLEAN : MetricLookupCb(k, f)
    \/ \E k \in Reqs : MetricInsCb(k)
    \/ \E k \in Reqs : MetricPutCb(k)

SpecInsRace == Init /\ [][NextInsRace]_vars

\* pushes one after the other, and reconciliation passes that may begin
\* while a push is being handled
RequestConverge ==
    \E k \in Reqs :
        /\ delivered < MaxConverge
        /\ \/ /\ InFlight = {}
              /\ Receive(k, "push", "push", RepoUrl, <<"refs", "heads", "main">>)
           \/ /\ \A j \in InFlight : run[j].ep = "push"
              /\ ListReceive(k)

NextConverge ==
    \/ RequestConverge
    \/ EnvApi
    \/ Handle
    \/ \E k \in Reqs, f \in BOOLEAN : ListAllCb(k, f)
    \/ \E k \in Reqs, f \in BOOLEAN : ListConnectCb(k, f)
    \/ \E k \in Reqs, f, rec \in BOOLEAN, st \in Pm2Statuses \cup {"missing"} :
          ListListCb(k, f, st, rec)
    \/ \E k \in Reqs : ListMetricCb(k)

SpecConverge == Init /\ [][NextConverge]_vars

\* pushes one after the other, and transactions sent to the vaults
NextVault ==
    \/ DeliverPush
    \/ EnvApi
    \/ Handle
    \/ \E h \in Hashes, c \in Accounts, n \in 1..MaxBalance : Deposit(h, c, n)
    \/ \E h \in Hashes, c \in Accounts, n \in 0..(MaxBalance + 1), sent \in BOOLEAN :
          Withdraw(h, c, n, sent)
    \/ \E h \in Hashes, c \in Accounts, success \in BOOLEAN : Execute(h, c, success)

SpecVault == Init /\ [][NextVault]_vars

TypeOK ==
    /\ \A h \in Hashes : registry[h] = ZeroAddress \/ registry[h][2] \in 1..deployed
    /\ \A a \in agents : a.id < nextId
    /\ faults <= MaxFaults

\* ------------------------------------------------------------------ claims
Row(h) == RowByHash(agents, h)
Rows(h) == {a \in agents : a.branch_hash = h}
ByBackend(a) == a # ZeroAddress /\ a[1] = Backend
ByStranger(a) == a # ZeroAddress /\ a[1] = Stranger

\* a run of the push endpoint that has just ended, was not overlapped by
\* another run, and in which every chain, git, database and supervisor call
\* succeeded
CleanPushRun(k) ==
    /\ run[k].pc = "done"
    /\ run[k].ep = "push"
    /\ run[k].bh # <<>>
    /\ run[k].alone
    /\ ~run[k].faulted

\* C1: when a valid push for a branch with no registry entry, no row, no
\* working directory and no process has been handled with every call
\* succeeding (and nobody else registered the branch meanwhile),
\* registerAgent was called exactly once, the branch has a row with status
\* running, its working directory exists and exactly one process carries
\* its name.
FirstPushDeploys ==
    \A k \in Reqs :
        (CleanPushRun(k) /\ run[k].pre = NoState /\ ~ByStranger(registry[run[k].bh]))
        => /\ run[k].regCalls = 1
           /\ run[k].regRes = "ok"
           /\ ByBackend(registry[run[k].bh])
           /\ Cardinality(Rows(run[k].bh)) = 1
           /\ Row(run[k].bh).status = "running"
           /\ tree[run[k].bh] # NoTree
           /\ procs[Pm2Name(run[k].bh)] = 1

FirstPushDeployed ==
    \E k \in Reqs :
        /\ CleanPushRun(k) /\ run[k].pre = NoState
        /\ run[k].regCalls = 1
        /\ Row(run[k].bh).status = "running"
        /\ procs[Pm2Name(run[k].bh)] = 1

\* C2: when the same push is delivered again after a successful, undisturbed
\* run (no new upstream commit in between) and is handled with every call
\* succeeding, the branch's row (id, address, status), its working tree and
\* its processes are what they were before the second delivery: one row, one
\* process.
RedeliveryIdempotent ==
    \A k \in Reqs :
        (run[k].pc = "done" /\ run[k].again /\ run[k].alone /\ ~run[k].faulted)
        => /\ StateOf(run[k].bh) = run[k].pre
           /\ Cardinality(Rows(run[k].bh)) = 1
           /\ Row(run[k].bh).status = "running"
           /\ procs[Pm2Name(run[k].bh)] = 1
           /\ run[k].regCalls = 0

RedeliveryHandled ==
    \E k \in Reqs :
        /\ run[k].pc = "done" /\ run[k].again /\ run[k].alone /\ ~run[k].faulted
        /\ run[k].out = "started"
        /\ run[k].ep = "push"

\* C5: a registry entry changes only from the zero address to a non-zero
\* address; once non-zero it never changes, and a registerAgent call of the
\* handler issued while it is non-zero comes back "Agent already
\* registered" with the registry untouched.
RegistryWriteOnce ==
    [][/\ \A h \in Hashes :
            /\ registry[h] # ZeroAddress => registry'[h] = registry[h]
            /\ registry'[h] # registry[h] => registry'[h] # ZeroAddress
       /\ \A k \in Reqs :
            (run[k].pc = "register" /\ run'[k].pc # "register"
                /\ run'[k].regRes # "error" /\ registry[run[k].bh] # ZeroAddress)
            => (run'[k].regRes = "already" /\ registry' = registry)]_vars

RegisterReverted ==
    \E k \in Reqs :
        /\ run[k].regRes = "already"
        /\ ByStranger(registry[run[k].bh])

\* C3: a push (push endpoint) for a branch whose registry entry is already
\* non-zero never calls registerAgent; the address it works with is the one
\* the lookup returned; it never leaves a second process of the branch's
\* name, and when the supervisor's calls succeed the branch that had one
\* process has exactly one afterwards.
RegisteredBranchPush ==
    \A k \in Reqs :
        (run[k].ep = "push" /\ run[k].bh # <<>> /\ run[k].pre.reg # ZeroAddress)
        => /\ run[k].regCalls = 0
           /\ run[k].addr # NullAddr => run[k].addr = run[k].pre.reg
           /\ (run[k].pc = "done" /\ run[k].out = "started")
              => /\ run[k].agent.agent_address = run[k].pre.reg
                 /\ Row(run[k].bh).agent_address = run[k].pre.reg
           /\ (run[k].pc = "done" /\ run[k].alone /\ run[k].pre.procs = 1)
              => /\ procs[Pm2Name(run[k].bh)] <= 1
                 /\ run[k].out = "started" => procs[Pm2Name(run[k].bh)] = 1

RegisteredBranchPushed ==
    \E k \in Reqs :
        /\ run[k].ep = "push" /\ run[k].pc = "done" /\ run[k].out = "started"
        /\ run[k].pre.reg # ZeroAddress /\ run[k].pre.procs = 1
        /\ tree[run[k].bh].head > run[k].pre.tree.head
        /\ procs[Pm2Name(run[k].bh)] = 1

\* C4: once two overlapping pushes of one unregistered branch have both
\* called registerAgent, one successfully and one reverted with "Agent
\* already registered", and both have ended with no call failing otherwise,
\* the branch has one row holding the registered address, its status is not
\* error, and one process carries its name.
RaceConverges ==
    \A h \in Hashes :
        (/\ InFlight = {} /\ Quiet /\ faults = 0
         /\ ByBackend(registry[h])
         /\ \E o1, o2 \in {"started", "startfailed", "dberror", "chainerror"} :
                {<<"ok", o1>>, <<"already", o2>>} \subseteq hist)
        => /\ Cardinality(Rows(h)) = 1
           /\ Row(h).agent_address = registry[h]
           /\ Row(h).status # "error"
           /\ procs[Pm2Name(h)] = 1

\* C6: after a push handler run that ended with the worker started, the
\* branch's row holds the registry's current value for its branch_hash,
\* also when the lookup failed and the run went on with the stored address.
RowAddressIsRegistered ==
    \A k \in Reqs :
        (run[k].pc = "done" /\ run[k].out = "started")
        => /\ Rows(run[k].bh) # {}
           /\ \A a \in Rows(run[k].bh) :
                /\ a.agent_address = registry[a.branch_hash]
                /\ a.agent_address # ZeroAddress

StartedAfterFailedLookup ==
    \E k \in Reqs :
        /\ run[k].pc = "done" /\ run[k].out = "started" /\ run[k].ep = "push"
        /\ run[k].site = "B" /\ run[k].addr = NullAddr /\ run[k].faulted
        /\ Row(run[k].bh).agent_address = registry[run[k].bh]

\* what a handler's work changes: registry calls, rows, working trees,
\* supervised processes
Work(k) == <<agents, nextId, tree, cwd, procs, run[k].regCalls, run[k].worked>>
Ok200 == <<Reply(200, "text")>>
ValidPush(r) ==
    /\ r.evt = "push" /\ Truthy(r.url) /\ Truthy(r.ref)
    /\ r.ref # NotAString /\ BranchNameOf(r.ref) # ""
LacksField(r) ==
    \/ ~Truthy(r.url)
    \/ ~Truthy(r.ref)
    \/ (r.ref # NotAString /\ BranchNameOf(r.ref) = "")

\* C7: a valid push is answered 200 in the step that receives it, that step
\* does none of the work, every later step of the run that does work finds
\* the 200 already sent, and the response stays that one 200 whatever the
\* run's outcome.
RespondsBeforeWork ==
    [][\A k \in Reqs :
        /\ (run[k].pc = "idle" /\ run'[k].pc # "idle")
           => /\ Work(k)' = Work(k)
              /\ registry' = registry
        /\ (run[k].pc # "idle" /\ Work(k)' # Work(k)) => run[k].resp = Ok200
        /\ (run'[k].pc # "idle" /\ ValidPush(run'[k])) => run'[k].resp = Ok200]_vars

FailedAfter200 ==
    \E k \in Reqs :
        /\ ValidPush(run[k]) /\ run[k].pc = "done" /\ run[k].worked
        /\ run[k].out \in {"startfailed", "chainerror", "dberror"}
        /\ run[k].resp = Ok200

\* C8: a request to the push endpoint never has two responses; its timer is
\* set on receipt; the timer, when it fires, writes a 200 exactly if no
\* response was written before; and once the timer has fired or has been
\* cleared the request has exactly one response -- also when the handler
\* threw before answering.
ExactlyOneResponse ==
    [][\A k \in Reqs :
        (run'[k].ep = "push" /\ run'[k].pc # "idle")
        => /\ Len(run'[k].resp) <= 1
           /\ run'[k].timer \in {"armed", "fired", "cleared"}
           /\ run'[k].timer # "armed" => Len(run'[k].resp) = 1
           /\ (run[k].timer = "armed" /\ run'[k].timer = "fired")
              => /\ (run'[k].resp # run[k].resp) <=> (run[k].resp = <<>>)
                 /\ run[k].resp = <<>> => run'[k].resp = Ok200]_vars

TimerAnsweredThrow ==
    \E k \in Reqs :
        /\ run[k].ep = "push" /\ run[k].out = "threw"
        /\ run[k].timer = "fired" /\ run[k].resp = Ok200

\* C9: a push event without repository.clone_url, without ref, or with a ref
\* whose last segment is empty is answered 400 in the step that receives it,
\* on either endpoint; that step and the ended run change nothing: no
\* registry call, no row, no working tree, no process.
InvalidPushRejected ==
    [][\A k \in Reqs :
        /\ (run[k].pc = "idle" /\ run'[k].pc # "idle"
               /\ run'[k].evt = "push" /\ LacksField(run'[k]))
           => /\ run'[k].resp = <<Reply(400, "text")>>
              /\ run'[k].pc = "done"
              /\ run'[k].out = "invalid"
              /\ Work(k)' = Work(k)
              /\ registry' = registry
        /\ (run[k].pc = "done" /\ run[k].out = "invalid")
           => /\ Work(k)' = Work(k) \/ run'[k].pc = "idle"
              /\ <<agents, nextId, tree, cwd, procs, registry>>'
                   = <<agents, nextId, tree, cwd, procs, registry>>]_vars

MissingRefRejected ==
    \E k \in Reqs :
        /\ run[k].evt = "push" /\ run[k].url = RepoUrl /\ run[k].ref = Absent
        /\ run[k].resp = <<Reply(400, "text")>>
        /\ run[k].pc = "done"

\* C10: on both endpoints an event whose type is not push is answered 200
\* and starts no deployment, whatever its payload; a ping is answered 200
\* with the JSON acknowledgement.
NonPushIgnored ==
    \A k \in Reqs :
        (run[k].pc # "idle" /\ run[k].evt # "push")
        => /\ run[k].pc = "done"
           /\ ~run[k].worked
           /\ Len(run[k].resp) = 1
           /\ run[k].resp[1].status = 200
           /\ run[k].evt = "ping" => run[k].resp[1].body = "ack"

\* the terminal state the push endpoint reaches from the snapshot taken on
\* receipt, when the run is undisturbed and no call fails
TerminalAsPushEndpoint(r) ==
    /\ r.regCalls = IF r.pre.reg = ZeroAddress THEN 1 ELSE 0
    /\ IF r.pre.rows # {} /\ r.pre.tree = NoTree
       THEN r.out = "startfailed"
       ELSE /\ r.out = "started"
            /\ Cardinality(Rows(r.bh)) = 1
            /\ Row(r.bh).agent_address = registry[r.bh]
            /\ Row(r.bh).status = "running"
            /\ tree[r.bh] # NoTree
            /\ procs[Pm2Name(r.bh)] = 1

\* C11: a push handled by the generic endpoint makes the registry calls and
\* reaches the terminal state that the push endpoint makes and reaches from
\* the same rows, registry entry and working tree; in particular a branch
\* with no row and a zero registry entry is registered and deployed.
EndpointsAgree ==
    \A k \in Reqs :
        (/\ run[k].pc = "done" /\ run[k].bh # <<>>
         /\ run[k].alone /\ ~run[k].faulted
         /\ ~(run[k].pre.reg = ZeroAddress /\ ByStranger(registry[run[k].bh])))
        => TerminalAsPushEndpoint(run[k])

\* a run of the push endpoint for a branch without a row, every registry
\* lookup of which failed
LookupFailedRun(k) ==
    /\ run[k].pc = "done" /\ run[k].ep = "push" /\ run[k].bh # <<>>
    /\ run[k].pre.rows = {}
    /\ run[k].out # "dberror"
    /\ run[k].regCalls = 0 /\ run[k].addr = NullAddr

\* C12: a push for a branch without a row whose registry lookups fail is
\* answered 200 and leaves no row and no process (nothing of the branch's
\* state changes); an identical push handled after the RPC endpoint is back,
\* with no call failing, deploys the branch.
OutageLeavesNothing ==
    \A k \in Reqs :
        /\ LookupFailedRun(k)
           => /\ run[k].resp = Ok200
              /\ Rows(run[k].bh) = {}
              /\ run[k].out = "chainerror"
              /\ procs[Pm2Name(run[k].bh)] = run[k].pre.procs
              /\ tree[run[k].bh] = run[k].pre.tree
        /\ (/\ CleanPushRun(k) /\ <<"", "chainerror">> \in hist
            /\ run[k].pre = NoState /\ ~ByStranger(registry[run[k].bh]))
           => /\ run[k].out = "started"
              /\ Row(run[k].bh).status = "running"
              /\ procs[Pm2Name(run[k].bh)] = 1

DeployedAfterOutage ==
    \E k \in Reqs :
        /\ CleanPushRun(k) /\ <<"", "chainerror">> \in hist
        /\ run[k].pre = NoState /\ run[k].out = "started"
        /\ procs[Pm2Name(run[k].bh)] = 1

\* a recovery run that ended without an injected failure
CleanRecovery(k) ==
    /\ run[k].pc = "done" /\ run[k].ep = "recover" /\ run[k].bh # <<>>
    /\ ~run[k].faulted

\* the environment a worker of row id gets shows every secret of the table
SecretsVisibleTo(id) == BuildEnv(SecretsOf(secrets, id)) = BuildEnv(secrets)

\* C13: when table agents has lost the row of (R, main) while the registry
\* holds an address for it, a controller start creates the row with that
\* address, clones the working tree again, makes the secrets stored before
\* visible under the new row id, and starts the worker if the entrypoint is
\* there.
RecoveryRestores ==
    \A k \in Reqs :
        (CleanRecovery(k) /\ run[k].pre.rows = {} /\ run[k].pre.reg # ZeroAddress)
        => /\ Cardinality(Rows(run[k].bh)) = 1
           /\ Row(run[k].bh).agent_address = registry[run[k].bh]
           /\ tree[run[k].bh] # NoTree
           /\ SecretsVisibleTo(Row(run[k].bh).id)
           /\ HasEntrypoint(tree, run[k].bh)
              => (run[k].out = "started" /\ procs[Pm2Name(run[k].bh)] = 1)

\* a state of branch hash h in which recovery finds nothing to do: the
\* branch has its row, or the registry has no address for it
Settled(st) == st.rows # {} \/ st.reg = ZeroAddress

\* a recovery run without failure, with the registry unchanged meanwhile,
\* leaves a state in which recovery finds nothing to do, and a run that
\* begins in such a state ends as "present" or "nothing" with rows, working
\* tree, processes and registry entry of the branch as they were
RecoverySettles ==
    \A k \in Reqs :
        (CleanRecovery(k) /\ registry[run[k].bh] = run[k].pre.reg)
        => /\ Settled(StateOf(run[k].bh))
           /\ Settled(run[k].pre)
              => /\ run[k].out \in {"present", "nothing"}
                 /\ StateOf(run[k].bh) = run[k].pre

\* no step of a recovery run that began in a settled state writes to a
\* table, to the working tree or to the supervisor
RecoveryWritesNothing ==
    [][\A k \in Reqs :
          (run[k].ep = "recover" /\ run[k].bh # <<>> /\ Settled(run[k].pre)
           /\ registry[run[k].bh] = run[k].pre.reg /\ run'[k] # run[k])
          => UNCHANGED <<agents, nextId, secrets, metrics, oauth, tree, procs>>]_vars

\* C14: recovery is a fixed point: with registry and upstream unchanged, a
\* recovery run leaves a state that a further recovery run does not change,
\* so N runs leave what one run leaves.
RecoveryIsFixedPoint == []RecoverySettles /\ RecoveryWritesNothing

\* a recovery run began with the row in place, as a recovery run leaves it
RecoveredAgain ==
    \E k \in Reqs :
        /\ CleanRecovery(k) /\ run[k].out = "present"
        /\ run[k].pre.rows # {} /\ run[k].pre.reg # ZeroAddress
        /\ StateOf(run[k].bh) = run[k].pre

\* rows of table secrets with key x
RowsOfKey(x) == {i \in 1..Len(secrets) : secrets[i].key = x}

\* C15: when secret K is stored under an earlier row id of the branch and the
\* row has been created anew under another id, the environment of the next
\* worker start has K with the stored plaintext, and table secrets has a
\* row of K keyed on the new id.
SecretsFollowRow ==
    \A k \in Reqs, x \in Keys :
        (/\ run[k].pc = "done" /\ run[k].out = "started" /\ ~run[k].faulted
         /\ \E i \in RowsOfKey(x) : secrets[i].agent_id # run[k].agent.id)
        => /\ run[k].env[x] = BuildEnv(secrets)[x]
           /\ \E i \in RowsOfKey(x) : secrets[i].agent_id = run[k].agent.id

\* rows of table secrets for agent id and key x
RowsOfSecret(id, x) == {i \in RowsOfKey(x) : secrets[i].agent_id = id}

\* C16: after a secret is set, and set again under the same key, table
\* secrets has exactly one row for (agent_id, key), which holds the
\* ciphertext of the value set last, and the environment of the next worker
\* start has that value.
OneRowPerSecret ==
    \A k \in Reqs :
        /\ (run[k].pc = "done" /\ run[k].ep = "secrets" /\ run[k].out = "stored")
           => /\ Cardinality(RowsOfSecret(run[k].agent.id, run[k].key)) = 1
              /\ \A i \in RowsOfSecret(run[k].agent.id, run[k].key) :
                     secrets[i].encrypted_value = Encrypt(run[k].val)
        /\ (/\ run[k].pc = "done" /\ run[k].out = "started" /\ ~run[k].faulted
            /\ SecretsOf(secrets, run[k].agent.id) # <<>>)
           => run[k].env = BuildEnv(SecretsOf(secrets, run[k].agent.id))

\* a metrics request for a branch without a row that ended without an
\* injected failure
MetricForUnknown(k) ==
    /\ run[k].pc = "done" /\ run[k].ep = "metrics" /\ run[k].bh # <<>>
    /\ run[k].pre.rows = {} /\ ~run[k].faulted

\* C17: a metric posted for a branch without a row: if the registry returns
\* a non-zero address, exactly one row is created for the branch, with that
\* address, the metric is recorded against it and the answer is 201; if the
\* registry returns zero, the answer is 404 and neither a row nor a metric
\* is written.
MetricSelfHeals ==
    \A k \in Reqs :
        MetricForUnknown(k)
        => IF run[k].addr # ZeroAddress
           THEN /\ run[k].resp = <<Reply(201, "json")>>
                /\ Cardinality(Rows(run[k].bh)) = 1
                /\ Row(run[k].bh).agent_address = run[k].addr
                /\ run[k].addr = registry[run[k].bh]
                /\ Len(metrics) = run[k].nmet + 1
                /\ metrics[Len(metrics)] = MetricRow(Row(run[k].bh).id, run[k].key)
           ELSE /\ run[k].resp = <<Reply(404, "json")>>
                /\ Rows(run[k].bh) = {}
                /\ Len(metrics) = run[k].nmet

\* a metric for a registered branch without a row created the row
MetricHealedRow ==
    \E k \in Reqs :
        /\ MetricForUnknown(k) /\ run[k].addr # ZeroAddress
        /\ Cardinality(Rows(run[k].bh)) = 1 /\ Len(metrics) = run[k].nmet + 1

\* C18: every row of table agents has branch_hash = hash(repo_url + "/" +
\* branch_name), and no two rows share a branch_hash, whichever operation
\* created the row: a push to either endpoint, the manual trigger, the
\* self-healing of the metrics endpoint or the recovery at startup.
RowsKeyedByHash ==
    /\ \A a \in agents : a.branch_hash = a.repo_url \o <<a.branch_name>>
    /\ \A a, b \in agents : a.branch_hash = b.branch_hash => a = b

\* a row is in the table that one of the other operations created after an
\* earlier row of the branch had been lost
RowCreatedAnew ==
    \E k \in Reqs :
        /\ run[k].pc = "done" /\ run[k].ep \in {"manual", "metrics", "recover"}
        /\ run[k].pre.rows = {} /\ Rows(run[k].bh) # {}
        /\ Row(run[k].bh).id > 1

\* C19: the branch name of a push is the last segment of its ref and the
\* branch hash is computed from clone_url + "/" + that name, at both
\* endpoints, so refs/heads/main and refs/heads/feature/main give the same
\* hash and are served by the same row of table agents.
BranchIsLastSegment ==
    /\ Cardinality(agents) <= 1
    /\ \A k \in Reqs :
         (run[k].pc # "idle" /\ run[k].ref \in PushRefs)
         => /\ run[k].bname = "main"
            /\ run[k].bh = <<"R", "main">>
            /\ (run[k].pc = "done" /\ run[k].out = "started")
               => run[k].agent.id = Row(<<"R", "main">>).id

\* a push of refs/heads/feature/main was served by the row that was there
SameAgentForBothRefs ==
    \E k \in Reqs :
        /\ run[k].pc = "done" /\ run[k].out = "started"
        /\ run[k].ref = <<"refs", "heads", "feature", "main">>
        /\ run[k].pre.rows # {}
        /\ \E a \in run[k].pre.rows : a.id = run[k].agent.id /\ a.branch_name = "main"

\* plaintexts that must not be stored: secret values and access tokens
Plaintexts == Plain \cup Tokens

\* the values in the columns of tables secrets and github_oauth
StoredValues ==
    {secrets[i].encrypted_value : i \in 1..Len(secrets)}
    \cup {o.access_token : o \in oauth} \cup {o.encrypted_token : o \in oauth}

\* C20: no plaintext secret is in the store: the secrets endpoint, the
\* migration and the OAuth callback write ciphertext only, and no response
\* carries a plaintext.
NoPlaintextStored ==
    /\ StoredValues \cap Plaintexts = {}
    /\ \A k \in Reqs : run[k].echo \cap Plaintexts = {}

\* a reconciliation pass of run k has ended after its status decision
SyncedPass(k) ==
    /\ run[k].ep = "agents" /\ run[k].pc = "done" /\ run[k].out = "synced"
    /\ run[k].pm2st \in {"online", "stopped", "errored", "missing"}

\* the table of the reconciliation: the status for a supervisor status p,
\* recent metrics or none, and the status old the row had
StatusTable(old, p, recent) ==
    CASE p = "online" -> "running"
      [] p \in {"stopped", "errored"} -> IF recent THEN "running" ELSE "error"
      [] p = "missing" -> IF recent THEN "running"
                          ELSE IF old = "running" THEN "error" ELSE old

IpcFailureReported ==
    \A k \in Reqs : run[k].pc \notin {"hung", "exited"}

\* C23: the manual trigger leaves the terminal state a push leaves from
\* the same rows, registry entry and working tree: the branch has its one
\* row, running, with the registered address, its working tree and its one
\* worker (error when the row existed without a working tree) -- whether a
\* row existed before and whether registerAgent reverted with "Agent already
\* registered"
ManualTriggerAsPush ==
    \A k \in Reqs :
        (/\ run[k].pc = "done" /\ run[k].ep = "manual" /\ run[k].bh # <<>>
         /\ run[k].alone /\ ~run[k].faulted)
        => IF run[k].pre.rows # {} /\ run[k].pre.tree = NoTree
           THEN Row(run[k].bh).status = "error"
           ELSE /\ Cardinality(Rows(run[k].bh)) = 1
                /\ Row(run[k].bh).agent_address = registry[run[k].bh]
                /\ Row(run[k].bh).status = "running"
                /\ tree[run[k].bh] # NoTree
                /\ procs[Pm2Name(run[k].bh)] = 1

\* run k is between a supervisor connect and the end of its start/reload
InSupervisorSequence(k) ==
    run[k].pc \in {"sor_connect", "sor_list", "sor_delete", "sor_reload", "sor_start"}

\* C24: per branch hash at most one push-handler run is between its start
\* and its completion, and per supervisor name at most one start/reload
\* sequence is in progress
PerBranchSerialized ==
    \A j, k \in Reqs :
        (j # k /\ j \in InFlight /\ k \in InFlight /\ run[j].bh = run[k].bh
         /\ run[j].bh # <<>>)
        => /\ ~(run[j].ep = "push" /\ run[k].ep = "push")
           /\ ~(InSupervisorSequence(j) /\ InSupervisorSequence(k))

\* run k has connected to the supervisor and has a supervisor call pending
\* or still to make
BetweenConnectAndLastCall(k) ==
    run[k].pc \in {"sor_list", "sor_delete", "sor_reload", "sor_start", "ls_list"}

\* C25: the use of the shared supervisor connection is serialized: no
\* disconnect of one operation takes effect between another operation's
\* successful connect and its last supervisor call, so the connection is
\* open for every operation in that window
ConnectionHeldToLastCall ==
    \A k \in Reqs : BetweenConnectAndLastCall(k) => pm2conn

\* C26: every git or install command issued for branch hash h runs in the
\* working directory of h, also when that directory did not exist at the
\* moment the handler changed into it
CommandsInOwnDirectory ==
    \A k \in Reqs : \A i \in 1..Len(run[k].shell) :
        run[k].shell[i].dir = run[k].bh

\* C27: a push handler that reached the workspace step, no call of which
\* failed, cloned if the working directory was absent and synced if it was
\* present, and the directory exists afterwards
WorkspaceMaterialized ==
    \A k \in Reqs :
        (/\ run[k].ep = "push" /\ run[k].shell # <<>>
         /\ run[k].alone /\ ~run[k].faulted)
        => /\ tree[run[k].bh] # NoTree
           /\ (run[k].shell[1].cmd = "clone") = (run[k].pre.tree = NoTree)

\* startOrReloadAgent has been called in run k
CalledStart(k) == run[k].site # ""

\* C28: a failed step of the workspace sync stops the sequence: no command
\* is executed after a failed one, and the worker is not started or
\* reloaded after it
SyncStopsAtFailure ==
    \A k \in Reqs : \A i \in 1..Len(run[k].shell) :
        (run[k].shell[i].cmd # "clone" /\ ~run[k].shell[i].ok)
        => (i = Len(run[k].shell) /\ ~CalledStart(k))

\* C29: a push during which a clone, a sync step or an install failed, for
\* a branch that has a row, ends with the status of the row set to error
GitFailureMarksError ==
    \A k \in Reqs :
        (/\ run[k].pc = "done" /\ run[k].evt = "push"
         /\ \E i \in 1..Len(run[k].shell) : ~run[k].shell[i].ok
         /\ Rows(run[k].bh) # {})
        => Row(run[k].bh).status = "error"

\* the promise of startOrReloadAgent of run k is rejected in this step: the
\* run leaves the supervisor sequence otherwise than with the worker started
SorRejected(k) ==
    /\ InSupervisorSequence(k)
    /\ run'[k].pc \notin {"sor_connect", "sor_list", "sor_delete", "sor_reload",
                          "sor_start", "hung", "exited"}
    /\ run'[k].out # "started"

\* the status is error and the caller has the rejection when the promise
\* of startOrReloadAgent is rejected
RejectionSetsError ==
    \A k \in Reqs : SorRejected(k) =>
        /\ \E a \in agents' : a.id = run[k].agent.id /\ a.status = "error"
        /\ \/ run'[k].pc = "done" /\ run'[k].out = "startfailed"
           \/ run[k].site = "A" /\ run'[k].site = "B"

\* C30: when startOrReloadAgent fails at a supervisor step (connect, list,
\* start, or a delete followed by a failed reload) the status of the agent
\* is set to error and the caller gets the rejection, and the failed call
\* does not leave the status at running or deploying: what is left of it
\* after a connect that timed out ends with the status at error
StartFailureSetsError ==
    /\ [][RejectionSetsError]_vars
    /\ [](\A k \in Reqs :
            (run[k].ep = "late" /\ run[k].pc = "done")
            => \E a \in agents : a.id = run[k].agent.id /\ a.status = "error")

\* ---------------------------------------------------------------- C31
\* C31: every run of the push handler that has found or written the row of
\* its branch has, when it ends, left that row with status running or error,
\* never deploying.
FinalStatusCommitted ==
    \A k \in Reqs :
        (/\ run[k].pc = "done" /\ run[k].ep = "push"
         /\ run[k].out # "dberror" /\ run[k].agent # NoAgent)
        => \A a \in agents :
              a.id = run[k].agent.id => a.status \in {"running", "error"}

\* ---------------------------------------------------------------- C32
\* the steps of the push handler that wait for the registry
RegistryCalls == {"lookup1", "lookup2", "register", "lookup3"}

\* C32: when a registry call of a push fails because the RPC endpoint cannot
\* be reached, whether or not the branch has a row, the handler goes no
\* further than to another registry call or to its end: no row is written,
\* no working tree changes, nothing is asked of the supervisor, and no
\* status becomes error.
TransientFailureChangesNothing ==
    [][\A k \in Reqs :
          (/\ rpcDown /\ run[k].ep = "push"
           /\ run[k].pc \in RegistryCalls /\ run'[k].pc # run[k].pc)
          => /\ run'[k].pc \in RegistryCalls \cup {"done"}
             /\ agents' = agents /\ tree' = tree /\ cwd' = cwd]_vars

\* ---------------------------------------------------------------- C33
\* C33: when registerAgent of a push fails otherwise than by 'Agent already
\* registered', the handler stops (no working tree is cloned, no worker is
\* started) and the branch has an Agent row whose status is error.
RegisterFailureMarksError ==
    \A k \in Reqs :
        (run[k].pc = "done" /\ run[k].ep = "push" /\ run[k].regRes = "error")
        => /\ tree[run[k].bh] = run[k].pre.tree
           /\ procs[Pm2Name(run[k].bh)] = run[k].pre.procs
           /\ Rows(run[k].bh) # {}
           /\ \A a \in Rows(run[k].bh) : a.status = "error"

\* ---------------------------------------------------------------- C34
\* C34: when the private key or the factory address is missing, the server
\* starts all the same, every call of getEthersSetup (the one at load and
\* each later one) throws instead of returning, and a push handled in that
\* state runs no git command and never enters startOrReloadAgent.
ChainUnavailableWithoutConfig ==
    (~ethers.key \/ ~ethers.factory)
    => /\ GetEthersSetup(ethers).out = "throws"
       /\ \A k \in Reqs :
             (run[k].pc = "done" /\ run[k].ep = "push")
             => (run[k].shell = <<>> /\ run[k].site = "")

\* ---------------------------------------------------------------- C35
\* C35: when a stored secret fails to decrypt while startOrReloadAgent
\* builds the environment, startOrReloadAgent settles: no caller is left
\* waiting for ever on the env promise (pc envhung), where a restart
\* request would stay unanswered and a pushed Agent would stay at
\* deploying.
DecryptFailureSettles ==
    \A k \in Reqs : run[k].pc # "envhung"

\* ---------------------------------------------------------------- C36
\* C36: when the INSERT of the Agent row of a metric post or of a push hits
\* the uniqueness constraint on branch_hash, because an overlapping
\* operation has just created the row, the operation goes on with the
\* existing row and completes: the metric post is answered 201, the push
\* ends with the worker started, and the branch has one row.
RowCreationRaceSafe ==
    \A k \in Reqs :
        (/\ run[k].pc = "done" /\ run[k].ep \in {"metrics", "push"}
         /\ ~run[k].ok /\ ~run[k].faulted)
        => /\ Cardinality(Rows(run[k].bh)) = 1
           /\ run[k].ep = "metrics" => run[k].resp = <<Reply(201, "json")>>
           /\ run[k].ep = "push" => run[k].out = "started"

\* ---------------------------------------------------------------- C37
\* C37: a recovery pass that finds a known pair registered on-chain whose
\* row already exists leaves the pair, like a pair it has recovered, with
\* its working tree present at the upstream tip and, the entrypoint being
\* there, a supervised worker.
RecoveryHandlesExistingRows ==
    \A k \in Reqs :
        (/\ run[k].pc = "done" /\ run[k].ep = "recover"
         /\ run[k].out = "present" /\ ~run[k].faulted)
        => /\ tree[run[k].bh] # NoTree
           /\ tree[run[k].bh].head = tip[run[k].bh]
           /\ procs[Pm2Name(run[k].bh)] >= 1

\* ---------------------------------------------------------------- C38
\* C38: safePm2.connect calls back once per call: after its timer has
\* reported a timeout (the caller has written error and rejected), the
\* callback of pm2.connect does not run the caller's continuation again,
\* so no continuation of a timed-out connect lists, deletes or starts.
ConnectCallsBackOnce ==
    \A k \in Reqs : run[k].ep # "late"

\* ---------------------------------------------------------------- C39
\* a reconciliation pass that began with no other handler running, was not
\* overlapped, met no failure and got online from the supervisor
FurtherPass(k) ==
    /\ run[k].ep = "agents" /\ run[k].pc = "done" /\ run[k].out = "synced"
    /\ run[k].alone /\ ~run[k].faulted /\ run[k].pm2st = "online"

VaultOwnerOnly ==
    /\ [](\A h \in Hashes :
             registry[h] # ZeroAddress =>
                LET v == vaults[h]
                IN /\ v.owner = registry[h][1]
                   /\ (v.last.fn \in {"withdraw", "execute"} /\ v.last.caller # v.owner)
                         => v.last.reverted
                   /\ (v.last.fn = "withdraw" /\ v.last.amount > v.last.before)
                         => v.last.reverted
                   /\ v.last.reverted => v.balance = v.last.before)
    /\ [][\A h \in Hashes :
             vaults[h].owner # "" => vaults'[h].owner = vaults[h].owner]_vars

\* a funded vault of the controller has refused a withdrawal by another
\* account and kept its balance
StrangerWithdrawRefused ==
    \E h \in Hashes :
        /\ vaults[h].owner = Backend /\ vaults[h].balance > 0
        /\ vaults[h].last = Tx("withdraw", Stranger, vaults[h].balance, vaults[h].balance, TRUE)

====
